---- MODULE Spec2Model ----
(***************************************************************************)
(* Model of the signal-aggregation pipeline of tele-fin-news-bot:          *)
(*   - the embedding fallback chain      (clusterer._embed_texts)          *)
(*   - the summarization fallback chain  (summarizer.summarize_cluster,    *)
(*     summarizer.summarize_text_cluster, summarizer._parse_response)      *)
(*   - the clear / cluster / summarize / persist run                       *)
(*     (clusterer.run_unified_clustering, summarizer.run_summarization,    *)
(*     database.clear_signals, database.upsert_signal)                     *)
(*                                                                         *)
(* Python strings are modelled as sequences of one-character strings, so   *)
(* that slicing, stripping and emptiness are computed, not assumed.        *)
(***************************************************************************)
EXTENDS Integers, Sequences, FiniteSets, TLC

VARIABLES
    \* ---- one call of clusterer._embed_texts -----------------------------
    emb_chain,      \* config.EMBEDDING_MODEL_FALLBACKS seen by the call
    emb_outcomes,   \* what each backend of the chain does when it is called
    emb_texts,      \* the texts argument
    emb_result,     \* the result of the call (return value or raised error)
    emb_pc,         \* "ready" before the call, "done" after it; in the stepwise
                    \* call "loop" at the head of the model loop and "gemini"
                    \* inside _embed_gemini
    emb_model,      \* stepwise call: position in the chain of the model of the loop
    emb_i,          \* stepwise call: i of the batch loop of _embed_gemini
    emb_all_vecs,   \* stepwise call: all_vecs of the latest _embed_gemini call
    \* ---- one call of summarizer.summarize_cluster / summarize_text_cluster
    sum_cluster,    \* the cluster argument (its position in SummClusters)
    sum_chain,      \* config.CHAT_MODEL_FALLBACKS seen by the call
    sum_outcomes,   \* what each backend of the chain does when it is called
    sum_result,     \* the (title, summary, tickers_raw) returned
    sum_pc,         \* "ready" before the call, "done" after it
    \* ---- the store and the pipeline run ---------------------------------
    channels,       \* channels table: subscriber_count of every channel
    posts,          \* posts table: the rows, in the order the queries return them
    link_score,     \* links.authority_score of every link, in millionths
    signals,        \* signals table: a set of rows keyed by cluster_id
    link_cluster,   \* links.cluster_id of every link (NullCluster when unassigned)
    uuid_next,      \* the number of the next identifier uuid4 generates
    clusters,       \* run_pipeline's clusters: the list run_unified_clustering returned
    pc,             \* position of the run: "idle", or the stage that returned
                    \* last; "off" when unused
    stage_log,      \* the stages the current run called, in call order
    db_calls,       \* the writes of the current run to the signals table
    score_hist,     \* the last two scorings: what they read and what they left
    run_status,     \* how the last run ended: "none", "running", "completed", "failed"
    run_backend,    \* position in the chain of the backend that embedded the run
    ids_before,     \* the cluster_ids of the signals table when the last run started
    run_ids,        \* the cluster_ids of the clusters the last run returned
    dbscan_labels,  \* for each backend, the labels DBSCAN gives its vectors
    completed,      \* for each completed run: its signal count and backend
    \* ---- one call of scorer.compute_authority ----------------------------
    auth_data,      \* channel_data: the list of (S_c, V_c_L) pairs
    auth_w1,        \* w1, in tenths
    auth_w2,        \* w2, in tenths
    auth_result,    \* the score returned, in millionths, or the error raised
    auth_pc,        \* "ready" before the call, "done" after it
    \* the bot listener process
    lis_running,    \* the global _running
    lis_task,       \* where the _handle_run task stands: "none", an await it is
                    \* suspended at, or "pipeline" while it holds the event
                    \* loop in the synchronous stages; "off" when unused
    lis_read,       \* what the handler that ran last saw of the signal set
    lis_active,     \* number of _handle_run tasks between _running = True and
                    \* the finally clause
    lis_log,        \* what the latest run did after its start notice
    \* ---- one call of a clustering function, then run_summarization ------
    cl_mode,        \* "unified", "link" or "text": the function called; "off" when unused
    cl_rows,        \* the rows the function's query returns
    cl_labels,      \* the labels DBSCAN gives the rows
    cl_top_n,       \* the top_n argument
    cl_map,         \* cluster_map.values() once the aggregation loop is over
    cl_clusters,    \* the list the function returned
    cl_links,       \* links.cluster_id of every link
    cl_signals,     \* signals table
    cl_pc           \* "ready", "clustered", "summarized"

embVars == <<emb_chain, emb_outcomes, emb_texts, emb_result, emb_pc,
             emb_model, emb_i, emb_all_vecs>>

sumVars == <<sum_cluster, sum_chain, sum_outcomes, sum_result, sum_pc>>

pipeVars == <<channels, posts, link_score, signals, link_cluster, uuid_next, clusters, pc,
             stage_log, db_calls, score_hist, run_status,
              run_backend, ids_before, run_ids, dbscan_labels, completed>>

authVars == <<auth_data, auth_w1, auth_w2, auth_result, auth_pc>>

lisVars == <<lis_running, lis_task, lis_read, lis_active, lis_log>>

clVars == <<cl_mode, cl_rows, cl_labels, cl_top_n, cl_map, cl_clusters, cl_links,
            cl_signals, cl_pc>>

vars == <<embVars, sumVars, pipeVars, authVars, lisVars, clVars>>

\* the variables an action of one part of the model leaves alone
notEmb  == <<sumVars, pipeVars, authVars, lisVars, clVars>>
notSum  == <<embVars, pipeVars, authVars, lisVars, clVars>>
notPipe == <<embVars, sumVars, authVars, lisVars, clVars>>
notAuth == <<embVars, sumVars, pipeVars, lisVars, clVars>>
notCl   == <<embVars, sumVars, pipeVars, authVars, lisVars>>

NULL == "NULL"

Min(a, b) == IF a <= b THEN a ELSE b

Max(a, b) == IF a >= b THEN a ELSE b

\* a nullable INTEGER / REAL column: NULL (None in Python), or a number
SqlNull == [null |-> TRUE, v |-> 0]

SqlInt(n) == [null |-> FALSE, v |-> n]

(***************************************************************************)
(* Bounds of the model.                                                    *)
(***************************************************************************)
MaxEmbChain == 3      \* longest embedding backend list explored
MaxTexts    == 2      \* largest number of texts passed to one embed call
MaxBatches  == 2      \* full batches in the longest text list of a stepwise embed call
MaxItems    == 4      \* most rows given to one clustering call
MaxTopN     == 2      \* largest top_n of a clustering call
MaxChatChain == 3     \* longest prefix of the summarization backend list explored
MaxPosts    == 4      \* largest number of posts eligible for clustering
MaxRuns     == 2      \* number of completed pipeline runs explored
MaxPairs    == 2      \* longest list of (audience, engagement) pairs explored
MaxScorePosts == 2    \* most posts of a store whose scoring is explored
TOP_SIGNALS == 2      \* config.TOP_SIGNALS, scaled down to the store

(***************************************************************************)
(* Embedding backends.  A backend is named by its model string; the code   *)
(* tells remote from local ones by the prefix "gemini".                    *)
(***************************************************************************)
GeminiModels == {"gemini-embedding-001", "gemini-embedding-exp"}

LocalModels == {"paraphrase-multilingual-mpnet-base-v2",
                "paraphrase-multilingual-MiniLM-L12-v2"}

EmbeddingModels == GeminiModels \cup LocalModels

EMBEDDING_MODEL_FALLBACKS ==
    << "gemini-embedding-001",
       "paraphrase-multilingual-mpnet-base-v2",
       "paraphrase-multilingual-MiniLM-L12-v2" >>

\* model.startswith("gemini")
StartsWithGemini(model) == model \in GeminiModels

(***************************************************************************)
(* Errors.  str(ClientError) is "<code> <status>. <details>"; it is kept   *)
(* as the token sequence <<code, status, detail>>.  The code and the       *)
(* status are within the first 20 characters of the text, the details      *)
(* start after them.                                                       *)
(***************************************************************************)
ClientErrors ==
    { [kind |-> "ClientError", code |-> "400", status |-> "INVALID_ARGUMENT", detail |-> ""],
      [kind |-> "ClientError", code |-> "400", status |-> "INVALID_ARGUMENT", detail |-> "429"],
      [kind |-> "ClientError", code |-> "401", status |-> "UNAUTHENTICATED", detail |-> ""],
      [kind |-> "ClientError", code |-> "403", status |-> "PERMISSION_DENIED", detail |-> ""],
      [kind |-> "ClientError", code |-> "429", status |-> "RESOURCE_EXHAUSTED", detail |-> ""] }

\* any exception that is not a ClientError (timeout, server error, OSError...)
OtherException == [kind |-> "Exception", code |-> "", status |-> "", detail |-> ""]

Ok == [kind |-> "ok", code |-> "", status |-> "", detail |-> ""]

ErrStr(e) == <<e.code, e.status, e.detail>>

\* err.startswith(prefix), for a three-digit prefix
ErrStartsWith(err, prefix) == err[1] = prefix

\* token in err
ErrContains(err, token) == \E i \in 1..Len(err) : err[i] = token

\* What a backend may do when called: a remote one answers, or raises a
\* ClientError or another exception; a local one answers or raises an
\* exception of the local runtime (never a google ClientError).
BackendOutcomes(model) ==
    IF StartsWithGemini(model)
        THEN {Ok, OtherException} \cup ClientErrors
        ELSE {Ok, OtherException}

\* The vectors a backend returns: one per text, in input order; a vector is
\* identified by the model that produced it and the text it embeds.
Vectors(model, texts) == [i \in 1..Len(texts) |-> <<model, texts[i]>>]

Returned(value) == [raised |-> FALSE, value |-> value, exc |-> Ok]

Raised(exc) == [raised |-> TRUE, value |-> <<>>, exc |-> exc]

embed_gemini(model, texts, outcome) ==
    IF outcome.kind = "ok" THEN Returned(Vectors(model, texts))
                           ELSE Raised(outcome)

embed_local(model_name, texts, outcome) ==
    IF outcome.kind = "ok" THEN Returned(Vectors(model_name, texts))
                           ELSE Raised(outcome)

\* Faulty variants of the except clauses, against which the chain properties
\* are tested: a quota error that ends the chain, an authentication error
\* that does not, a local failure that does not.
EmbedBreaks_QuotaBreaks(is_local, exc) ==
    IF exc.kind = "ClientError" THEN exc.code \in {"401", "403", "429"}
                                ELSE is_local

EmbedBreaks_AuthContinues(is_local, exc) ==
    IF exc.kind = "ClientError" THEN FALSE ELSE is_local

EmbedBreaks_LocalContinues(is_local, exc) ==
    IF exc.kind = "ClientError" THEN exc.code \in {"401", "403"} ELSE FALSE

\* The except clauses of _embed_texts: TRUE when the handler leaves the loop
\* (break), FALSE when the loop goes on with the next model.
EmbedBreaks(is_local, exc) ==
    IF exc.kind = "ClientError"
        THEN IF ErrStartsWith(ErrStr(exc), "401") \/ ErrStartsWith(ErrStr(exc), "403")
                 THEN TRUE
                 ELSE IF ErrContains(ErrStr(exc), "429")
                         \/ ErrContains(ErrStr(exc), "RESOURCE_EXHAUSTED")
                          THEN FALSE
                          ELSE FALSE
        ELSE is_local

\* Faulty variant of the statement after the loop: falling off the loop
\* returns an empty array instead of raising.
EmbedAllFailed_ReturnsEmpty(tried) ==
    [raised |-> FALSE, exc |-> NULL, vecs |-> <<>>, by |-> 0, tried |-> tried]

\* The statement after the loop: raise RuntimeError.
EmbedAllFailed(tried) ==
    [raised |-> TRUE, exc |-> "RuntimeError", vecs |-> <<>>, by |-> 0,
     tried |-> tried]

RECURSIVE EmbedLoop(_, _, _, _, _)
EmbedLoop(chain, outcomes, texts, i, tried) ==
    IF i > Len(chain) THEN EmbedAllFailed(tried)
    ELSE
        LET model    == chain[i]
            is_local == ~StartsWithGemini(model)
            r        == IF is_local THEN embed_local(model, texts, outcomes[i])
                                    ELSE embed_gemini(model, texts, outcomes[i])
            tried2   == Append(tried, i)
        IN  IF ~r.raised
                THEN [raised |-> FALSE, exc |-> NULL, vecs |-> r.value,
                      by |-> i, tried |-> tried2]
                ELSE IF EmbedBreaks(is_local, r.exc)
                         THEN EmbedAllFailed(tried2)
                         ELSE EmbedLoop(chain, outcomes, texts, i + 1, tried2)

\* _embed_texts(texts) with the given chain; tried lists the positions of
\* the chain that were called, in call order.
embed_texts(chain, outcomes, texts) == EmbedLoop(chain, outcomes, texts, 1, <<>>)

(***************************************************************************)
(* Strings: sequences of one-character strings.  A Hangul syllable is one  *)
(* character and is written by its romanisation ("je" "mok" ":" is the     *)
(* three-character title label of the response format).                    *)
(***************************************************************************)
IsSpace(c) == c \in {" ", "\n"}

\* s.strip()
Strip(s) ==
    IF \A i \in 1..Len(s) : IsSpace(s[i]) THEN <<>>
    ELSE LET first == CHOOSE i \in 1..Len(s) :
                          ~IsSpace(s[i]) /\ \A j \in 1..(i - 1) : IsSpace(s[j])
             last  == CHOOSE i \in 1..Len(s) :
                          ~IsSpace(s[i]) /\ \A j \in (i + 1)..Len(s) : IsSpace(s[j])
         IN  SubSeq(s, first, last)

\* s.startswith(p)
StartsWith(s, p) == Len(s) >= Len(p) /\ SubSeq(s, 1, Len(p)) = p

\* s[n:]
SliceFrom(s, n) == SubSeq(s, n + 1, Len(s))

\* s[:n]
SliceTo(s, n) == SubSeq(s, 1, Min(n, Len(s)))

\* s.splitlines(): the pieces between the line breaks; a line break at the
\* very end opens no further line.
SplitLines(s) ==
    LET breaks == {i \in 1..Len(s) : s[i] = "\n"}
        nth(k) == CHOOSE p \in breaks : Cardinality({q \in breaks : q < p}) = k - 1
        n      == Cardinality(breaks)
        from(k) == IF k = 1 THEN 1 ELSE nth(k - 1) + 1
        to(k)   == IF k = n + 1 THEN Len(s) ELSE nth(k) - 1
        pieces == [k \in 1..(n + 1) |-> SubSeq(s, from(k), to(k))]
    IN  IF pieces[n + 1] = <<>> THEN SubSeq(pieces, 1, n) ELSE pieces

RECURSIVE Join(_, _)
\* sep.join(parts)
Join(parts, sep) ==
    IF parts = <<>> THEN <<>>
    ELSE IF Len(parts) = 1 THEN parts[1]
    ELSE parts[1] \o sep \o Join(Tail(parts), sep)

\* repeated character, for long texts
Rep(c, n) == [i \in 1..n |-> c]

(***************************************************************************)
(* summarizer._parse_response                                              *)
(***************************************************************************)
TITLE_PREFIX   == <<"je", "mok", ":">>
SUMMARY_PREFIX == <<"yo", "yak", ":">>
TICKERS_PREFIX == <<"jong", "mok", ":">>

DEFAULT_TITLE      == <<"si", "geu", "neol">>
DEFAULT_TEXT_TITLE == <<"ba", "i", "reol">>
NO_SUMMARY         == <<"(", "yo", "yak", " ", "jeong", "bo", " ", "eops", "eum", ")">>
ELLIPSIS           == <<".", ".", ".">>

SUMMARY_MAX_LEN    == 500
TEXT_TITLE_LEN     == 30
LABEL_LEN          == 3

\* The for loop over the lines: the last line carrying a label wins.
RECURSIVE ParseLines(_, _)
ParseLines(lines, acc) ==
    IF lines = <<>> THEN acc
    ELSE LET line == Strip(Head(lines))
             acc2 == IF StartsWith(line, TITLE_PREFIX)
                         THEN [acc EXCEPT !.title = Strip(SliceFrom(line, LABEL_LEN))]
                     ELSE IF StartsWith(line, SUMMARY_PREFIX)
                         THEN [acc EXCEPT !.summary = Strip(SliceFrom(line, LABEL_LEN))]
                     ELSE IF StartsWith(line, TICKERS_PREFIX)
                         THEN [acc EXCEPT !.tickers_raw = Strip(SliceFrom(line, LABEL_LEN))]
                     ELSE acc
         IN  ParseLines(Tail(lines), acc2)

IsBodyLine(l) ==
    /\ ~StartsWith(l, TITLE_PREFIX)
    /\ ~StartsWith(l, SUMMARY_PREFIX)
    /\ ~StartsWith(l, TICKERS_PREFIX)

RECURSIVE NonEmptyStripped(_)
\* [l.strip() for l in lines if l.strip()]
NonEmptyStripped(lines) ==
    IF lines = <<>> THEN <<>>
    ELSE (IF Strip(Head(lines)) # <<>> THEN <<Strip(Head(lines))>> ELSE <<>>)
             \o NonEmptyStripped(Tail(lines))

RECURSIVE BodyLines(_)
\* [l for l in lines if l carries none of the three labels]
BodyLines(lines) ==
    IF lines = <<>> THEN <<>>
    ELSE (IF IsBodyLine(Head(lines)) THEN <<Head(lines)>> ELSE <<>>)
             \o BodyLines(Tail(lines))

\* The summary rebuilt from the unlabelled lines when no summary was parsed.
BodySummary(text) ==
    LET lines == NonEmptyStripped(SplitLines(Strip(text)))
        body  == BodyLines(lines)
    IN  SliceTo(Join(body, <<"\n">>), SUMMARY_MAX_LEN)

parse_response(text) ==
    LET parsed  == ParseLines(SplitLines(Strip(text)),
                              [title |-> <<>>, summary |-> <<>>, tickers_raw |-> <<>>])
        summary == IF parsed.summary = <<>> THEN BodySummary(text) ELSE parsed.summary
    IN  [title       |-> IF parsed.title # <<>> THEN parsed.title ELSE DEFAULT_TITLE,
         summary     |-> summary,
         tickers_raw |-> parsed.tickers_raw]

(***************************************************************************)
(* summarizer.summarize_cluster / summarize_text_cluster                   *)
(***************************************************************************)
CHAT_MODEL_FALLBACKS ==
    << "gemini-flash-latest", "gemini-flash-lite-latest", "gemini-2.5-flash-lite",
       "gemini-2.0-flash", "gemini-2.5-pro",
       "gemma-3-27b-it", "gemma-3-12b-it", "gemma-3-4b-it" >>

\* Response texts of a generative backend.
RespFull ==
    TITLE_PREFIX \o <<" ", "T">> \o <<"\n">> \o SUMMARY_PREFIX \o <<" ", "S", " ">>
        \o <<"\n">> \o TICKERS_PREFIX \o <<" ", "K">>

RespTitleOnly == TITLE_PREFIX \o <<" ", "T">>

RespUnlabelled == <<" ", "a", "b", "\n", "\n", " ", "c", "\n">>

RespEmptyLabels ==
    TITLE_PREFIX \o <<"\n">> \o SUMMARY_PREFIX \o <<" ", "\n", "x">>

RespLong == Rep("w", 502)

\* resp.text by the name of the response; "None" is a response without text
ResponseText ==
    [ full |-> RespFull, title_only |-> RespTitleOnly, unlabelled |-> RespUnlabelled,
      empty_labels |-> RespEmptyLabels, long |-> RespLong, empty |-> <<>> ]

Responses == DOMAIN ResponseText \cup {"None"}

\* _call_model: the text of the response, "" when the response has none.
call_model(model, outcome) ==
    IF outcome.kind = "ok"
        THEN Returned(IF outcome.text = "None" THEN <<>> ELSE ResponseText[outcome.text])
        ELSE Raised(outcome)

\* str(e)[:20]: the code and the start of the status
ErrFirst20(err) == SubSeq(err, 1, 2)

\* Faulty variants of the except clauses of the summarization chain.
SummBreaks_NeverBreaks(exc) == FALSE

SummBreaks_QuotaBreaks(exc) == TRUE

\* The except clauses of summarize_cluster / summarize_text_cluster: TRUE
\* when the handler leaves the loop (break).
SummBreaks(exc) ==
    IF exc.kind = "ClientError"
        THEN IF ErrContains(ErrFirst20(ErrStr(exc)), "429") THEN FALSE ELSE TRUE
        ELSE TRUE

RECURSIVE SummLoop(_, _, _, _)
\* for model in config.CHAT_MODEL_FALLBACKS: ...
SummLoop(chain, outcomes, i, tried) ==
    IF i > Len(chain) THEN [answered |-> FALSE, raw |-> <<>>, tried |-> tried]
    ELSE
        LET r      == call_model(chain[i], outcomes[i])
            tried2 == Append(tried, i)
        IN  IF ~r.raised
                THEN [answered |-> TRUE, raw |-> r.value, tried |-> tried2]
                ELSE IF SummBreaks(r.exc)
                         THEN [answered |-> FALSE, raw |-> <<>>, tried |-> tried2]
                         ELSE SummLoop(chain, outcomes, i + 1, tried2)

RECURSIVE FirstDescription(_)
\* next((d.strip()[:500] for d in descriptions if d and d.strip()), "(...)")
FirstDescription(descriptions) ==
    IF descriptions = <<>> THEN NO_SUMMARY
    ELSE IF Head(descriptions) # <<>> /\ Strip(Head(descriptions)) # <<>>
             THEN SliceTo(Strip(Head(descriptions)), SUMMARY_MAX_LEN)
             ELSE FirstDescription(Tail(descriptions))

SummResult(answered, tried, t) ==
    [raised |-> FALSE, answered |-> answered, tried |-> tried,
     title |-> t.title, summary |-> t.summary, tickers_raw |-> t.tickers_raw]

summarize_cluster(cluster, chain, outcomes) ==
    LET fallback_title   == IF cluster.titles # <<>> THEN cluster.titles[1]
                                                     ELSE DEFAULT_TITLE
        r                == SummLoop(chain, outcomes, 1, <<>>)
        fallback_summary == FirstDescription(cluster.descriptions)
    IN  IF r.answered
            THEN SummResult(TRUE, r.tried, parse_response(r.raw))
            ELSE SummResult(FALSE, r.tried,
                            [title |-> fallback_title, summary |-> fallback_summary,
                             tickers_raw |-> <<>>])

summarize_text_cluster(cluster, chain, outcomes) ==
    LET fallback_title   == IF cluster.post_texts # <<>>
                                THEN SliceTo(cluster.post_texts[1], TEXT_TITLE_LEN) \o ELLIPSIS
                                ELSE DEFAULT_TEXT_TITLE
        r                == SummLoop(chain, outcomes, 1, <<>>)
        fallback_summary == IF cluster.post_texts # <<>>
                                THEN SliceTo(cluster.post_texts[1], SUMMARY_MAX_LEN)
                                ELSE NO_SUMMARY
    IN  IF r.answered
            THEN SummResult(TRUE, r.tried, parse_response(r.raw))
            ELSE SummResult(FALSE, r.tried,
                            [title |-> fallback_title, summary |-> fallback_summary,
                             tickers_raw |-> <<>>])

(***************************************************************************)
(* Inputs of the summarization calls.                                      *)
(***************************************************************************)
Title1 == <<"T", "1">>
Title2 == <<"T", "2">>
Desc1  == <<"D", "1">>
Desc2  == <<" ", "D", "2", " ">>
Blank  == <<" ", " ">>

PostShort == Rep("p", 35)     \* a post a little longer than the title excerpt
PostLong  == Rep("q", 505)    \* a post longer than the summary excerpt
DescLong  == Rep("d", 501)    \* a description longer than the summary limit

MkCluster(mode, titles, descriptions, post_texts) ==
    [mode |-> mode, titles |-> titles, descriptions |-> descriptions,
     post_texts |-> post_texts]

\* The clusters handed to the summarization calls.
\*  unified: as run_unified_clustering builds them: the post texts of the
\*           members, and a title and a description ("" when the link has
\*           none) for every link of the members;
\*  link:    as run_clustering builds them: links with a non-empty title, and
\*           the texts of the posts carrying them (possibly none);
\*  text:    as run_text_clustering builds them: post texts only.
SummClusters ==
    << MkCluster("unified", <<>>, <<>>, <<PostShort, PostShort>>),
       MkCluster("unified", <<Title1>>, <<Desc1>>, <<PostShort, PostLong>>),
       MkCluster("unified", <<<<>>, Title2>>, <<<<>>, Desc2>>, <<PostShort, PostShort>>),
       MkCluster("unified", <<<<>>>>, <<Blank>>, <<PostLong, PostShort>>),
       MkCluster("unified", <<Title1, Title2>>, <<DescLong, Desc1>>, <<PostShort, PostShort>>),
       MkCluster("link", <<Title1>>, <<<<>>>>, <<>>),
       MkCluster("link", <<Title2, Title1>>, <<<<>>, Desc1>>, <<PostShort>>),
       MkCluster("text", <<>>, <<>>, <<PostShort, PostLong>>),
       MkCluster("text", <<>>, <<>>, <<PostLong, PostShort>>) >>

\* What a generative backend may do when called.
SummOutcomes ==
    { [kind |-> "ok", code |-> "", status |-> "", detail |-> "", text |-> t] :
          t \in Responses }
    \cup { [kind |-> e.kind, code |-> e.code, status |-> e.status,
            detail |-> e.detail, text |-> "None"] :
              e \in {c \in ClientErrors : c.code \in {"400", "429"}} \cup {OtherException} }

(***************************************************************************)
(* The store (database.py) and the data of the run.                        *)
(***************************************************************************)
\* The rows of the posts table.  Post i is carried by channel 1 or 2, has a
\* text of more than 30 characters and i views, has no authority score
\* before the first scoring, and posts link to the two links of the store.
Post(i) ==
    [post_id         |-> i,
     channel_id      |-> 1 + (i % 2),
     content         |-> Rep("p", 30 + i),
     views           |-> SqlInt(i),
     authority_score |-> SqlNull,
     url_hashes_raw  |-> IF i % 3 = 1 THEN <<1>>
                         ELSE IF i % 3 = 2 THEN <<1, 2>> ELSE <<>>]

ChannelIds == {1, 2}

\* channels.subscriber_count of the pipeline runs
Subscribers == [c \in ChannelIds |-> SqlInt(2 * c)]

Links == {1, 2}

\* links.title / links.description; link 2 was never enriched
LinkMeta(h) ==
    IF h = 1 THEN [has_title |-> TRUE, title |-> Title1,
                   has_description |-> TRUE, description |-> Desc1]
             ELSE [has_title |-> FALSE, title |-> <<>>,
                   has_description |-> FALSE, description |-> <<>>]

MIN_POST_LENGTH == 30

\* a row of the clustering query
ClusteringRow(post) ==
    [post_id         |-> post.post_id,
     channel_id      |-> post.channel_id,
     content         |-> post.content,
     has_score       |-> ~post.authority_score.null,
     authority_score |-> post.authority_score.v,
     url_hashes_raw  |-> post.url_hashes_raw]

RECURSIVE LongPosts(_, _)
LongPosts(ps, min_length) ==
    IF ps = <<>> THEN <<>>
    ELSE (IF Len(Head(ps).content) >= min_length THEN <<ClusteringRow(Head(ps))>> ELSE <<>>)
         \o LongPosts(Tail(ps), min_length)

\* db.get_posts_for_clustering(min_length=30, collect_hours=...): the posts
\* of the window whose text has at least min_length characters
get_posts_for_clustering(ps) == LongPosts(ps, MIN_POST_LENGTH)

\* db.get_links_metadata(url_hashes)
get_links_metadata(url_hashes) ==
    [h \in {url_hashes[k] : k \in 1..Len(url_hashes)} \cap Links |-> LinkMeta(h)]

\* links.cluster_id IS NULL; the identifiers uuid4 generates start at 1
NullCluster == 0

\* Faulty variant of clear_signals: the rows of the earlier run are kept.
clear_signals_KeepsRows(sig, lc) ==
    [signals |-> sig, link_cluster |-> [h \in DOMAIN lc |-> NullCluster]]

\* db.clear_signals(): DELETE FROM signals; UPDATE links SET cluster_id = NULL
clear_signals(sig, lc) ==
    [signals |-> {}, link_cluster |-> [h \in DOMAIN lc |-> NullCluster]]

\* Faulty variant of upsert_signal: the row replaces the rows of the table.
upsert_signal_Replaces(sig, cluster_id, representative_title, summary_text, total_authority_score) ==
    {[cluster_id            |-> cluster_id,
      representative_title  |-> representative_title,
      summary_text          |-> summary_text,
      total_authority_score |-> total_authority_score]}

\* db.upsert_signal(): INSERT ... ON CONFLICT(cluster_id) DO UPDATE
upsert_signal(sig, cluster_id, representative_title, summary_text, total_authority_score) ==
    {r \in sig : r.cluster_id # cluster_id}
        \cup {[cluster_id            |-> cluster_id,
               representative_title  |-> representative_title,
               summary_text          |-> summary_text,
               total_authority_score |-> total_authority_score]}

\* db.assign_link_to_cluster(): UPDATE links SET cluster_id = ? WHERE url_hash = ?
assign_link_to_cluster(lc, url_hash, cluster_id) ==
    IF url_hash \in DOMAIN lc THEN [lc EXCEPT ![url_hash] = cluster_id] ELSE lc

(***************************************************************************)
(* clusterer.run_unified_clustering                                        *)
(***************************************************************************)
EMBED_TEXT_LEN == 500

DBSCAN_MIN_SAMPLES == 2

\* Faulty variant: every call returns the same identifier.
Uuid_Reused(k) == 1

\* str(uuid.uuid4()): the k-th identifier ever generated
Uuid(k) == k

NewCluster(label, cluster_id) ==
    [label |-> label, mode |-> "unified", cluster_id |-> cluster_id,
     url_hashes |-> <<>>, titles |-> <<>>, descriptions |-> <<>>,
     post_texts |-> <<>>, post_ids |-> <<>>, channel_ids |-> <<>>,
     total_authority_score |-> 0]

RECURSIVE AppendNew(_, _)
\* for h in hashes: if h and h not in url_hashes: url_hashes.append(h)
AppendNew(url_hashes, hashes) ==
    IF hashes = <<>> THEN url_hashes
    ELSE AppendNew(IF \E k \in 1..Len(url_hashes) : url_hashes[k] = Head(hashes)
                       THEN url_hashes
                       ELSE Append(url_hashes, Head(hashes)),
                   Tail(hashes))

\* One pass of the aggregation loop: cluster_map is kept in insertion order.
AddRow(cluster_map, row, label, uuid0) ==
    IF label = -1 THEN cluster_map
    ELSE
        LET known == \E k \in 1..Len(cluster_map) : cluster_map[k].label = label
            cm1   == IF known THEN cluster_map
                     ELSE Append(cluster_map,
                                 NewCluster(label, Uuid(uuid0 + Len(cluster_map))))
            j     == CHOOSE k \in 1..Len(cm1) : cm1[k].label = label
            c     == cm1[j]
        IN  [cm1 EXCEPT ![j] =
                [c EXCEPT !.post_texts  = Append(@, row.content),
                          !.post_ids    = Append(@, row.post_id),
                          !.channel_ids = Append(@, row.channel_id),
                          !.total_authority_score =
                              @ + (IF row.has_score THEN row.authority_score ELSE 0),
                          !.url_hashes  = AppendNew(@, row.url_hashes_raw)]]

RECURSIVE Aggregate(_, _, _, _, _)
\* for row, label in zip(rows, labels): ...
Aggregate(rows, labels, i, cluster_map, uuid0) ==
    IF i > Len(rows) THEN cluster_map
    ELSE Aggregate(rows, labels, i + 1,
                   AddRow(cluster_map, rows[i], labels[i], uuid0), uuid0)

RECURSIVE InsertByScore(_, _)
InsertByScore(sorted, c) ==
    IF sorted = <<>> THEN <<c>>
    ELSE IF c.total_authority_score > Head(sorted).total_authority_score
             THEN <<c>> \o sorted
             ELSE <<Head(sorted)>> \o InsertByScore(Tail(sorted), c)

\* Faulty variant: the clusters stay in insertion order.
SortByScoreDesc_Unsorted(cs) == cs

RECURSIVE SortByScoreDesc(_)
\* sorted(..., key=lambda c: c.total_authority_score, reverse=True): stable
SortByScoreDesc(cs) ==
    IF cs = <<>> THEN <<>>
    ELSE InsertByScore(SortByScoreDesc(SubSeq(cs, 1, Len(cs) - 1)), cs[Len(cs)])

RECURSIVE MetaList(_, _, _)
\* [meta[h][field] or "" for h in url_hashes if h in meta]
MetaList(url_hashes, meta, field) ==
    IF url_hashes = <<>> THEN <<>>
    ELSE LET h == Head(url_hashes)
         IN  (IF h \in DOMAIN meta
                  THEN << IF field = "title"
                              THEN (IF meta[h].has_title THEN meta[h].title ELSE <<>>)
                              ELSE (IF meta[h].has_description THEN meta[h].description
                                                               ELSE <<>>) >>
                  ELSE <<>>)
             \o MetaList(Tail(url_hashes), meta, field)

\* The metadata of one returned cluster.
WithMetadata(cluster) ==
    IF cluster.url_hashes = <<>> THEN cluster
    ELSE LET meta == get_links_metadata(cluster.url_hashes)
         IN  [cluster EXCEPT !.titles       = MetaList(cluster.url_hashes, meta, "title"),
                             !.descriptions = MetaList(cluster.url_hashes, meta, "description")]

RECURSIVE AssignAll(_, _, _)
AssignAll(lc, url_hashes, cluster_id) ==
    IF url_hashes = <<>> THEN lc
    ELSE AssignAll(assign_link_to_cluster(lc, Head(url_hashes), cluster_id),
                   Tail(url_hashes), cluster_id)

RECURSIVE AssignClusters(_, _)
\* for cluster in clusters: for h in cluster.url_hashes: assign_link_to_cluster
AssignClusters(lc, cs) ==
    IF cs = <<>> THEN lc
    ELSE AssignClusters(AssignAll(lc, Head(cs).url_hashes, Head(cs).cluster_id), Tail(cs))

\* The labellings DBSCAN.fit_predict can return for n points: -1 is noise,
\* clusters are numbered from 0 in the order their first point appears, and
\* a cluster has at least min_samples points (a point within eps of a core
\* point is a core point itself when min_samples is 2).
Labellings(n) ==
    { l \in [1..n -> -1..(n - 1)] :
        \A i \in 1..n :
            l[i] >= 0 =>
                /\ \/ \E j \in 1..(i - 1) : l[j] = l[i]
                   \/ l[i] = Cardinality({l[j] : j \in 1..(i - 1)} \ {-1})
                /\ Cardinality({j \in 1..n : l[j] = l[i]}) >= DBSCAN_MIN_SAMPLES }

\* What every backend of the embedding chain does during one run.
EmbRunOutcomes ==
    { o \in [1..Len(EMBEDDING_MODEL_FALLBACKS) -> {Ok, OtherException} \cup ClientErrors] :
        \A i \in 1..Len(EMBEDDING_MODEL_FALLBACKS) :
            o[i] \in BackendOutcomes(EMBEDDING_MODEL_FALLBACKS[i]) }

\* vecs = _embed_texts(texts): every result the chain can produce
EmbedResults(texts) ==
    { embed_texts(EMBEDDING_MODEL_FALLBACKS, outs, texts) : outs \in EmbRunOutcomes }

\* The clusters returned for the given rows and labels, and the link table
\* after the assignment.
BuildClusters(rows, labels, top_n, uuid0, lc) ==
    LET cluster_map == Aggregate(rows, labels, 1, <<>>, uuid0)
        top         == SliceTo(SortByScoreDesc(cluster_map), top_n)
        clusters_   == [k \in 1..Len(top) |-> WithMetadata(top[k])]
    IN  [clusters |-> clusters_,
         n_created |-> Len(cluster_map),
         link_cluster |-> AssignClusters(lc, clusters_)]

\* DBSCAN(...).fit_predict(vecs): the labels are a function of the vectors,
\* so of the backend that produced them over the unchanged rows.
fit_predict(known, by, n) ==
    IF known[by] # <<>> THEN {known[by]} ELSE Labellings(n)

\* What the generative backends do while one cluster is summarized: the
\* first backends are out of quota, the next one answers or fails.
SummRunOutcomes ==
    { [i \in 1..Len(CHAT_MODEL_FALLBACKS) |-> IF i < k THEN q ELSE x] :
        k \in 1..2,
        q \in {o \in SummOutcomes : o.code = "429"},
        x \in {o \in SummOutcomes :
                  \/ o.kind = "ok" /\ o.text = "full"
                  \/ o.code = "400" /\ o.detail = ""} }

RECURSIVE UpsertAll(_, _, _, _)
\* for i, cluster in enumerate(clusters, start=1): summarize, upsert_signal
UpsertAll(sig, cs, outs, i) ==
    IF i > Len(cs) THEN sig
    ELSE LET r == summarize_cluster(cs[i], CHAT_MODEL_FALLBACKS, outs[i])
         IN  UpsertAll(upsert_signal(sig, cs[i].cluster_id, r.title, r.summary,
                                     cs[i].total_authority_score),
                       cs, outs, i + 1)

\* Faulty variant: an empty cluster list is persisted as a placeholder row.
run_summarization_WritesPlaceholder(sig, cs, outs) ==
    IF cs = <<>>
        THEN upsert_signal(sig, NullCluster, <<>>, <<>>, 0)
        ELSE UpsertAll(sig, cs, outs, 1)

\* summarizer.run_summarization(clusters): nothing to do without clusters
run_summarization(sig, cs, outs) ==
    IF cs = <<>> THEN sig ELSE UpsertAll(sig, cs, outs, 1)

\* the cluster_id column of the signals table
SignalIds(sig) == {r.cluster_id : r \in sig}

ClusterIds(cs) == {cs[k].cluster_id : k \in 1..Len(cs)}

NoLabels == [i \in 1..Len(EMBEDDING_MODEL_FALLBACKS) |-> <<>>]

PipeIdle ==
    /\ channels = Subscribers
    /\ posts = <<>>
    /\ link_score = [h \in Links |-> 0]
    /\ signals = {}
    /\ link_cluster = [h \in Links |-> NullCluster]
    /\ uuid_next = 1
    /\ clusters = <<>>
    /\ pc = "off"
    /\ stage_log = <<>>
    /\ db_calls = <<>>
    /\ score_hist = <<>>
    /\ run_status = "none"
    /\ run_backend = 0
    /\ ids_before = {}
    /\ run_ids = {}
    /\ dbscan_labels = NoLabels
    /\ completed = <<>>

(***************************************************************************)
(* Authority scores (scorer.py).  Scores are fixed-point numbers: a score  *)
(* is kept as its number of millionths, which is what round(x, 6) keeps;   *)
(* weights are kept as their number of tenths, and a sum of weighted terms *)
(* is in ten-millionths until it is rounded.                               *)
(***************************************************************************)
SCORE_SCALE == 1000000

AUTHORITY_W1 == 7       \* 0.7
AUTHORITY_W2 == 3       \* 0.3
POST_URL_WEIGHT == 3    \* 0.3

\* math.log(S) in millionths, for the audience sizes of the model
LogTable ==
    << 0, 693147, 1098612, 1386294, 1609438, 1791759, 1945910, 2079442 >>

\* math.log(S): a ValueError for S <= 0
MathLog(S) ==
    IF S >= 1 /\ S <= Len(LogTable)
        THEN [raised |-> FALSE, value |-> LogTable[S]]
        ELSE [raised |-> TRUE, value |-> 0]

\* round(x, 6) of a value in ten-millionths: the nearest millionth
Round6(x) == IF x >= 0 THEN (x + 5) \div 10 ELSE -((5 - x) \div 10)

\* w1 * math.log(S_c) + w2 * (V_c_L / S_c), in ten-millionths
AuthorityTerm(S_c, V_c_L, w1, w2) ==
    w1 * MathLog(S_c).value + w2 * ((V_c_L * SCORE_SCALE) \div S_c)

RECURSIVE AuthorityTotal(_, _, _)
\* total = 0.0; for S_c, V_c_L in channel_data: total += ...
AuthorityTotal(channel_data, w1, w2) ==
    IF channel_data = <<>> THEN 0
    ELSE AuthorityTerm(Head(channel_data)[1], Head(channel_data)[2], w1, w2)
             + AuthorityTotal(Tail(channel_data), w1, w2)

\* Faulty variant: an empty list has no score.
compute_authority_EmptyRaises(channel_data, w1, w2) ==
    IF channel_data = <<>> \/ \E k \in 1..Len(channel_data) : MathLog(channel_data[k][1]).raised
        THEN [raised |-> TRUE, value |-> 0]
        ELSE [raised |-> FALSE, value |-> Round6(AuthorityTotal(channel_data, w1, w2))]

\* Faulty variant: the engagement ratio is subtracted.
compute_authority_RatioSubtracted(channel_data, w1, w2) ==
    IF \E k \in 1..Len(channel_data) : MathLog(channel_data[k][1]).raised
        THEN [raised |-> TRUE, value |-> 0]
        ELSE [raised |-> FALSE, value |-> Round6(AuthorityTotal(channel_data, w1, 0 - w2))]

\* scorer.compute_authority(channel_data, w1, w2)
compute_authority(channel_data, w1, w2) ==
    IF \E k \in 1..Len(channel_data) : MathLog(channel_data[k][1]).raised
        THEN [raised |-> TRUE, value |-> 0]
        ELSE [raised |-> FALSE, value |-> Round6(AuthorityTotal(channel_data, w1, w2))]

(***************************************************************************)
(* Link and post scoring over the store (scorer.run_scoring,               *)
(* scorer.run_post_scoring).                                               *)
(***************************************************************************)
\* the rows of post_links JOIN posts JOIN channels for one post
PostLinkRows(post, chans) ==
    [k \in 1..Len(post.url_hashes_raw) |->
        [url_hash         |-> post.url_hashes_raw[k],
         subscriber_count |-> chans[post.channel_id],
         views            |-> post.views]]

RECURSIVE JoinRows(_, _)
\* SELECT pl.url_hash, ch.subscriber_count, p.views FROM post_links pl
\* JOIN posts p ... JOIN channels ch ...
JoinRows(ps, chans) ==
    IF ps = <<>> THEN <<>>
    ELSE PostLinkRows(Head(ps), chans) \o JoinRows(Tail(ps), chans)

\* sub_count = max(row["subscriber_count"], 1): a TypeError when the column
\* is NULL (None and 1 do not compare)
LinkSubCount(subscriber_count) ==
    IF subscriber_count.null
        THEN [raised |-> TRUE, value |-> 0]
        ELSE [raised |-> FALSE, value |-> Max(subscriber_count.v, 1)]

\* row["views"] or 0
OrZero(x) == IF x.null THEN 0 ELSE x.v

RECURSIVE PairsOf(_, _)
\* result[url_hash]: the (sub_count, views) pairs of the rows of one link
PairsOf(rows, url_hash) ==
    IF rows = <<>> THEN <<>>
    ELSE (IF Head(rows).url_hash = url_hash
              THEN << <<LinkSubCount(Head(rows).subscriber_count).value,
                        OrZero(Head(rows).views)>> >>
              ELSE <<>>)
         \o PairsOf(Tail(rows), url_hash)

\* scorer._fetch_link_channel_data(): the pairs of every link that has rows
fetch_link_channel_data(ps, chans) ==
    LET rows == JoinRows(ps, chans)
    IN  IF \E k \in 1..Len(rows) : LinkSubCount(rows[k].subscriber_count).raised
            THEN [raised |-> TRUE, map |-> <<>>]
            ELSE [raised |-> FALSE,
                  map |-> [h \in {rows[k].url_hash : k \in 1..Len(rows)} |->
                              PairsOf(rows, h)]]

\* Faulty variant of update_link_score: the score is added to the stored one.
update_link_score_Adds(scores, url_hash, score) ==
    IF url_hash \in DOMAIN scores
        THEN [scores EXCEPT ![url_hash] = scores[url_hash] + score]
        ELSE scores

\* db.update_link_score(url_hash, score)
update_link_score(scores, url_hash, score) ==
    IF url_hash \in DOMAIN scores THEN [scores EXCEPT ![url_hash] = score] ELSE scores

\* the score run_scoring gives one link: 0.0 without channel data
LinkScore(link_channel_map, url_hash) ==
    IF url_hash \in DOMAIN link_channel_map /\ link_channel_map[url_hash] # <<>>
        THEN compute_authority(link_channel_map[url_hash], AUTHORITY_W1, AUTHORITY_W2)
        ELSE [raised |-> FALSE, value |-> 0]

\* the loop over the links: a link is written when no link before it raised
ScoreAllLinks(link_channel_map, scores) ==
    LET bad == {h \in DOMAIN scores : LinkScore(link_channel_map, h).raised}
    IN  [raised     |-> bad # {},
         link_score |-> [h \in DOMAIN scores |->
                            IF \A b \in bad : h < b
                                THEN update_link_score(scores, h,
                                         LinkScore(link_channel_map, h).value)[h]
                                ELSE scores[h]]]

\* scorer.run_scoring(): nothing is written when no link has channel data,
\* otherwise every row of links gets its score
run_scoring(ps, chans, scores) ==
    LET fetched == fetch_link_channel_data(ps, chans)
    IN  IF fetched.raised
            THEN [raised |-> TRUE, link_score |-> scores]
            ELSE IF DOMAIN fetched.map = {}
                     THEN [raised |-> FALSE, link_score |-> scores]
                     ELSE ScoreAllLinks(fetched.map, scores)

\* Sc = max(row["subscriber_count"] or 1, 1)
PostSubCount(subscriber_count) ==
    Max(IF subscriber_count.null \/ subscriber_count.v = 0 THEN 1
                                                          ELSE subscriber_count.v,
        1)

\* COALESCE(MAX(l.authority_score), 0) over the links of the post
MaxUrlAuth(post, scores) ==
    LET hs == {post.url_hashes_raw[k] : k \in 1..Len(post.url_hashes_raw)}
                  \cap DOMAIN scores
    IN  IF hs = {} THEN 0
        ELSE CHOOSE x \in {scores[h] : h \in hs} :
                 \A y \in {scores[h] : h \in hs} : y <= x

\* round(base + POST_URL_WEIGHT * url_auth, 6)
PostScore(post, chans, scores) ==
    LET Sc == PostSubCount(chans[post.channel_id])
        Vp == OrZero(post.views)
    IN  Round6(AuthorityTerm(Sc, Vp, AUTHORITY_W1, AUTHORITY_W2)
                   + POST_URL_WEIGHT * MaxUrlAuth(post, scores))

\* db.update_post_score(post_id, score)
update_post_score(post, score) ==
    [post EXCEPT !.authority_score = SqlInt(score)]

\* scorer.run_post_scoring(): every post gets its score
run_post_scoring(ps, chans, scores) ==
    [i \in 1..Len(ps) |-> update_post_score(ps[i], PostScore(ps[i], chans, scores))]

\* no handler has read the signal set
NoRead == [cmd |-> "none", ids |-> {}, running |-> FALSE, mid_run |-> FALSE]

ListenerIdle ==
    /\ lis_running = FALSE
    /\ lis_task = "off"
    /\ lis_read = NoRead
    /\ lis_active = 0
    /\ lis_log = <<>>

AuthIdle ==
    /\ auth_data = <<>>
    /\ auth_w1 = 0
    /\ auth_w2 = 0
    /\ auth_result = [raised |-> FALSE, value |-> 0]
    /\ auth_pc = "idle"

(***************************************************************************)
(* Specification SpecEmbed: one _embed_texts call on every bounded chain.  *)
(***************************************************************************)
EmbChains == UNION { [1..n -> EmbeddingModels] : n \in 1..MaxEmbChain }

TextLists == { [i \in 1..n |-> i] : n \in 1..MaxTexts }

EmbResultNone == [raised |-> FALSE, exc |-> NULL, vecs |-> <<>>, by |-> 0,
                  tried |-> <<>>]

SummResultNone ==
    [raised |-> FALSE, answered |-> FALSE, tried |-> <<>>, title |-> <<>>,
     summary |-> <<>>, tickers_raw |-> <<>>]

SummIdle ==
    /\ sum_cluster = 0
    /\ sum_chain = <<>>
    /\ sum_outcomes = <<>>
    /\ sum_result = SummResultNone
    /\ sum_pc = "idle"

ClusterIdle ==
    /\ cl_mode = "off"
    /\ cl_rows = <<>>
    /\ cl_labels = <<>>
    /\ cl_top_n = 0
    /\ cl_map = <<>>
    /\ cl_clusters = <<>>
    /\ cl_links = <<>>
    /\ cl_signals = {}
    /\ cl_pc = "idle"

\* the batch loop is not followed
NoBatches ==
    /\ emb_model = 0
    /\ emb_i = 0
    /\ emb_all_vecs = <<>>

EmbIdle ==
    /\ emb_chain = <<>>
    /\ emb_outcomes = <<>>
    /\ emb_texts = <<>>
    /\ emb_result = EmbResultNone
    /\ emb_pc = "idle"
    /\ NoBatches

InitEmbed ==
    /\ emb_chain \in EmbChains
    /\ emb_outcomes \in { o \in [1..Len(emb_chain) -> {Ok, OtherException} \cup ClientErrors] :
                            \A i \in 1..Len(emb_chain) : o[i] \in BackendOutcomes(emb_chain[i]) }
    /\ emb_texts \in TextLists
    /\ emb_result = EmbResultNone
    /\ emb_pc = "ready"
    /\ NoBatches
    /\ SummIdle
    /\ PipeIdle
    /\ AuthIdle
    /\ ListenerIdle
    /\ ClusterIdle

EmbedCall ==
    /\ emb_pc = "ready"
    /\ emb_result' = embed_texts(emb_chain, emb_outcomes, emb_texts)
    /\ emb_pc' = "done"
    /\ UNCHANGED <<emb_chain, emb_outcomes, emb_texts, emb_model, emb_i, emb_all_vecs,
                   notEmb>>

NextEmbed == EmbedCall

SpecEmbed == InitEmbed /\ [][NextEmbed]_vars

(***************************************************************************)
(* Specification SpecBatch: one _embed_texts call followed step by step,   *)
(* one embed_content request of _embed_gemini at a time.                   *)
(***************************************************************************)
BATCH_SIZE == 100

\* range(0, len(texts), batch_size) has another i
MoreBatches(texts, i) == i < Len(texts)

\* Faulty variant of the slice: the batch stops one text early.
BatchSlice_StopsEarly(texts, i, batch_size) ==
    SubSeq(texts, i + 1, Min(i + batch_size - 1, Len(texts)))

\* texts[i : i + batch_size], i counted from 0
BatchSlice(texts, i, batch_size) ==
    SubSeq(texts, i + 1, Min(i + batch_size, Len(texts)))

\* [emb.values for emb in result.embeddings] of one embed_content request:
\* one embedding per element of contents, in the order of contents
embed_content(model, contents) == Vectors(model, contents)

\* Faulty variant: the list of the abandoned call is taken up again.
NewAllVecs_KeepsPartial(left_over) == left_over

\* all_vecs = [] at the start of every _embed_gemini call; left_over is the
\* list of a call that an exception has ended
NewAllVecs(left_over) == <<>>

\* the text lists around every batch boundary
BatchTextLists ==
    { [i \in 1..n |-> i] :
        n \in { m \in 1..(MaxBatches * BATCH_SIZE + 1) :
                  m % BATCH_SIZE \in {0, 1, BATCH_SIZE - 1} } }

\* the positions of the chain called so far
TriedSoFar == [k \in 1..emb_model |-> k]

InitBatch ==
    /\ emb_chain \in EmbChains
    /\ emb_outcomes = <<>>
    /\ emb_texts \in BatchTextLists
    /\ emb_result = EmbResultNone
    /\ emb_pc = "loop"
    /\ emb_model = 1
    /\ emb_i = 0
    /\ emb_all_vecs = <<>>
    /\ SummIdle
    /\ PipeIdle
    /\ AuthIdle
    /\ ListenerIdle
    /\ ClusterIdle

\* the except clause that caught exc: break and raise after the loop, or
\* go on with the next model
AfterException(is_local, exc) ==
    IF EmbedBreaks(is_local, exc)
        THEN /\ emb_result' = EmbedAllFailed(TriedSoFar)
             /\ emb_pc' = "done"
             /\ emb_model' = emb_model
        ELSE /\ emb_result' = emb_result
             /\ emb_pc' = "loop"
             /\ emb_model' = emb_model + 1

\* for model in ...: a remote model, _embed_gemini(model, texts) is entered
GeminiCalled ==
    /\ emb_pc = "loop"
    /\ emb_model <= Len(emb_chain)
    /\ StartsWithGemini(emb_chain[emb_model])
    /\ emb_pc' = "gemini"
    /\ emb_i' = 0
    /\ emb_all_vecs' = NewAllVecs(emb_all_vecs)
    /\ UNCHANGED <<emb_chain, emb_outcomes, emb_texts, emb_result, emb_model, notEmb>>

\* one embed_content request returns: all_vecs.extend(...)
BatchReturns ==
    /\ emb_pc = "gemini"
    /\ MoreBatches(emb_texts, emb_i)
    /\ emb_all_vecs' = emb_all_vecs
                         \o embed_content(emb_chain[emb_model],
                                          BatchSlice(emb_texts, emb_i, BATCH_SIZE))
    /\ emb_i' = emb_i + BATCH_SIZE
    /\ UNCHANGED <<emb_chain, emb_outcomes, emb_texts, emb_result, emb_pc, emb_model,
                   notEmb>>

\* one embed_content request raises: the exception leaves _embed_gemini
\* with the list built so far and is caught in _embed_texts
BatchRaises ==
    /\ emb_pc = "gemini"
    /\ MoreBatches(emb_texts, emb_i)
    /\ \E exc \in BackendOutcomes(emb_chain[emb_model]) \ {Ok} :
           AfterException(FALSE, exc)
    /\ UNCHANGED <<emb_chain, emb_outcomes, emb_texts, emb_i, emb_all_vecs, notEmb>>

\* the batch loop is over: return np.array(all_vecs), and _embed_texts
\* returns it
GeminiReturns ==
    /\ emb_pc = "gemini"
    /\ ~MoreBatches(emb_texts, emb_i)
    /\ emb_result' = [raised |-> FALSE, exc |-> NULL, vecs |-> emb_all_vecs,
                      by |-> emb_model, tried |-> TriedSoFar]
    /\ emb_pc' = "done"
    /\ UNCHANGED <<emb_chain, emb_outcomes, emb_texts, emb_model, emb_i, emb_all_vecs,
                   notEmb>>

\* for model in ...: a local model, _embed_local(model, texts) returns
LocalReturns ==
    /\ emb_pc = "loop"
    /\ emb_model <= Len(emb_chain)
    /\ ~StartsWithGemini(emb_chain[emb_model])
    /\ emb_result' = [raised |-> FALSE, exc |-> NULL,
                      vecs |-> embed_local(emb_chain[emb_model], emb_texts, Ok).value,
                      by |-> emb_model, tried |-> TriedSoFar]
    /\ emb_pc' = "done"
    /\ UNCHANGED <<emb_chain, emb_outcomes, emb_texts, emb_model, emb_i, emb_all_vecs,
                   notEmb>>

\* for model in ...: a local model, _embed_local(model, texts) raises
LocalRaises ==
    /\ emb_pc = "loop"
    /\ emb_model <= Len(emb_chain)
    /\ ~StartsWithGemini(emb_chain[emb_model])
    /\ \E exc \in BackendOutcomes(emb_chain[emb_model]) \ {Ok} :
           AfterException(TRUE, exc)
    /\ UNCHANGED <<emb_chain, emb_outcomes, emb_texts, emb_i, emb_all_vecs, notEmb>>

\* the list of models is exhausted: raise RuntimeError
ChainExhausted ==
    /\ emb_pc = "loop"
    /\ emb_model > Len(emb_chain)
    /\ emb_result' = EmbedAllFailed([k \in 1..Len(emb_chain) |-> k])
    /\ emb_pc' = "done"
    /\ UNCHANGED <<emb_chain, emb_outcomes, emb_texts, emb_model, emb_i, emb_all_vecs,
                   notEmb>>

NextBatch ==
    \/ GeminiCalled
    \/ BatchReturns
    \/ BatchRaises
    \/ GeminiReturns
    \/ LocalReturns
    \/ LocalRaises
    \/ ChainExhausted

SpecBatch == InitBatch /\ [][NextBatch]_vars

(***************************************************************************)
(* Specification SpecSumm: one summarization call on every bounded input.  *)
(***************************************************************************)
InitSumm ==
    /\ sum_cluster \in 1..Len(SummClusters)
    /\ sum_chain \in {SubSeq(CHAT_MODEL_FALLBACKS, 1, n) : n \in 1..MaxChatChain}
    /\ sum_outcomes \in [1..Len(sum_chain) -> SummOutcomes]
    /\ sum_result = SummResultNone
    /\ sum_pc = "ready"
    /\ EmbIdle
    /\ PipeIdle
    /\ AuthIdle
    /\ ListenerIdle
    /\ ClusterIdle

SummarizeClusterCall ==
    /\ sum_pc = "ready"
    /\ SummClusters[sum_cluster].mode \in {"unified", "link"}
    /\ sum_result' = summarize_cluster(SummClusters[sum_cluster], sum_chain, sum_outcomes)
    /\ sum_pc' = "done"
    /\ UNCHANGED <<sum_cluster, sum_chain, sum_outcomes, notSum>>

SummarizeTextClusterCall ==
    /\ sum_pc = "ready"
    /\ SummClusters[sum_cluster].mode = "text"
    /\ sum_result' = summarize_text_cluster(SummClusters[sum_cluster], sum_chain, sum_outcomes)
    /\ sum_pc' = "done"
    /\ UNCHANGED <<sum_cluster, sum_chain, sum_outcomes, notSum>>

NextSumm == SummarizeClusterCall \/ SummarizeTextClusterCall

SpecSumm == InitSumm /\ [][NextSumm]_vars

(***************************************************************************)
(* Specification Spec: pipeline runs over a store whose posts do not       *)
(* change (main.py --signal-only, steps 2a to 4 of pipeline.run_pipeline). *)
(***************************************************************************)
Init ==
    /\ channels = Subscribers
    /\ posts \in {[i \in 1..n |-> Post(i)] : n \in 0..MaxPosts}
    /\ link_score = [h \in Links |-> 0]
    /\ signals = {}
    /\ link_cluster = [h \in Links |-> NullCluster]
    /\ uuid_next = 1
    /\ clusters = <<>>
    /\ pc = "idle"
    /\ stage_log = <<>>
    /\ db_calls = <<>>
    /\ score_hist = <<>>
    /\ run_status = "none"
    /\ run_backend = 0
    /\ ids_before = {}
    /\ run_ids = {}
    /\ dbscan_labels = NoLabels
    /\ completed = <<>>
    /\ EmbIdle
    /\ SummIdle
    /\ AuthIdle
    /\ ListenerIdle
    /\ ClusterIdle

\* what a scoring reads: the channels, and the posts without their scores
ScoringInputs(ps, chans) ==
    [channels |-> chans,
     posts    |-> [i \in 1..Len(ps) |-> [ps[i] EXCEPT !.authority_score = SqlNull]]]

\* what a scoring read and what it left in the store
ScoringRecord(ps, chans, scores) ==
    [inputs      |-> ScoringInputs(ps, chans),
     link_score  |-> scores,
     post_scores |-> [i \in 1..Len(ps) |-> ps[i].authority_score]]

Remember(hist, rec) ==
    IF Len(hist) < 2 THEN Append(hist, rec) ELSE <<hist[2], rec>>

\* Faulty variant: the posts are scored before the links.
Stages_PostsFirst ==
    <<"run_post_scoring", "run_scoring", "run_unified_clustering", "run_summarization">>

\* the stages of a run in the order run_pipeline calls them
Stages ==
    <<"run_scoring", "run_post_scoring", "run_unified_clustering", "run_summarization">>

StageIndex(stage) == CHOOSE k \in 1..Len(Stages) : Stages[k] = stage

\* the position from which a stage is called
Before(stage) ==
    IF StageIndex(stage) = 1 THEN "idle" ELSE Stages[StageIndex(stage) - 1]

\* the position once a stage has returned
After(stage) == IF StageIndex(stage) = Len(Stages) THEN "idle" ELSE stage

\* a stage is called when the one before it has returned; the first one
\* starts a run
Called(stage) ==
    /\ pc = Before(stage)
    /\ pc = "idle" => Len(completed) < MaxRuns
    /\ stage_log' = IF pc = "idle" THEN <<stage>> ELSE Append(stage_log, stage)

\* the signal writes of the run so far
DbCalls == IF pc = "idle" THEN <<>> ELSE db_calls

\* scorer.run_scoring(); a TypeError of the row processing leaves the run
RunScoring ==
    /\ Called("run_scoring")
    /\ LET r == run_scoring(posts, channels, link_score)
       IN  /\ link_score' = r.link_score
           /\ pc' = IF r.raised THEN "idle" ELSE After("run_scoring")
           /\ run_status' = IF r.raised THEN "score_failed" ELSE "running"
           /\ score_hist' = IF r.raised
                                THEN Remember(score_hist,
                                              ScoringRecord(posts, channels, r.link_score))
                                ELSE score_hist
    /\ db_calls' = DbCalls
    /\ UNCHANGED <<channels, posts, signals, link_cluster, uuid_next, clusters,
                   run_backend, ids_before, run_ids, dbscan_labels, completed, notPipe>>

\* scorer.run_post_scoring()
RunPostScoring ==
    /\ Called("run_post_scoring")
    /\ posts' = run_post_scoring(posts, channels, link_score)
    /\ pc' = After("run_post_scoring")
    /\ run_status' = "running"
    /\ score_hist' = Remember(score_hist, ScoringRecord(posts', channels, link_score))
    /\ db_calls' = DbCalls
    /\ UNCHANGED <<channels, link_score, signals, link_cluster, uuid_next, clusters,
                   run_backend, ids_before, run_ids, dbscan_labels,
                   completed, notPipe>>

\* run_unified_clustering finds no post: return []
RunUnifiedClusteringNoRows ==
    /\ Called("run_unified_clustering")
    /\ get_posts_for_clustering(posts) = <<>>
    /\ ids_before' = SignalIds(signals)
    /\ signals' = clear_signals(signals, link_cluster).signals
    /\ link_cluster' = clear_signals(signals, link_cluster).link_cluster
    /\ db_calls' = Append(DbCalls, "clear_signals")
    /\ clusters' = <<>>
    /\ run_ids' = {}
    /\ run_backend' = 0
    /\ run_status' = "running"
    /\ pc' = After("run_unified_clustering")
    /\ UNCHANGED <<channels, posts, link_score, score_hist, uuid_next, dbscan_labels,
                   completed, notPipe>>

\* run_unified_clustering: every embedding backend failed, the RuntimeError
\* of _embed_texts leaves the function and the run.
RunUnifiedClusteringEmbedFails ==
    /\ Called("run_unified_clustering")
    /\ LET rows  == get_posts_for_clustering(posts)
           texts == [i \in 1..Len(rows) |-> SliceTo(rows[i].content, EMBED_TEXT_LEN)]
       IN  /\ rows # <<>>
           /\ \E r \in EmbedResults(texts) : r.raised
    /\ ids_before' = SignalIds(signals)
    /\ signals' = clear_signals(signals, link_cluster).signals
    /\ link_cluster' = clear_signals(signals, link_cluster).link_cluster
    /\ db_calls' = Append(DbCalls, "clear_signals")
    /\ clusters' = <<>>
    /\ run_ids' = {}
    /\ run_backend' = 0
    /\ run_status' = "failed"
    /\ pc' = "idle"
    /\ UNCHANGED <<channels, posts, link_score, score_hist, uuid_next, dbscan_labels,
                   completed, notPipe>>

\* run_unified_clustering: a backend returns the vectors; DBSCAN labels the
\* rows, the clusters are aggregated, ranked, cut and returned.
RunUnifiedClustering ==
    /\ Called("run_unified_clustering")
    /\ LET rows    == get_posts_for_clustering(posts)
           texts   == [i \in 1..Len(rows) |-> SliceTo(rows[i].content, EMBED_TEXT_LEN)]
           cleared == clear_signals(signals, link_cluster)
       IN  /\ rows # <<>>
           /\ \E r \in EmbedResults(texts) :
                /\ ~r.raised
                /\ \E labels \in fit_predict(dbscan_labels, r.by, Len(r.vecs)) :
                     LET res == BuildClusters(rows, labels, TOP_SIGNALS,
                                              uuid_next, cleared.link_cluster)
                     IN  /\ clusters' = res.clusters
                         /\ run_ids' = ClusterIds(res.clusters)
                         /\ link_cluster' = res.link_cluster
                         /\ uuid_next' = uuid_next + res.n_created
                         /\ dbscan_labels' = [dbscan_labels EXCEPT ![r.by] = labels]
                         /\ run_backend' = r.by
           /\ signals' = cleared.signals
    /\ db_calls' = Append(DbCalls, "clear_signals")
    /\ ids_before' = SignalIds(signals)
    /\ run_status' = "running"
    /\ pc' = After("run_unified_clustering")
    /\ UNCHANGED <<channels, posts, link_score, score_hist, completed, notPipe>>

\* summarizer.run_summarization(clusters), the last step of the run: one
\* upsert_signal per cluster
RunSummarization ==
    /\ Called("run_summarization")
    /\ \E outs \in [1..Len(clusters) -> SummRunOutcomes] :
           signals' = run_summarization(signals, clusters, outs)
    /\ db_calls' = DbCalls \o [k \in 1..Len(clusters) |-> "upsert_signal"]
    /\ completed' = Append(completed,
                           [count |-> Cardinality(signals'), backend |-> run_backend])
    /\ clusters' = <<>>
    /\ run_status' = "completed"
    /\ pc' = After("run_summarization")
    /\ UNCHANGED <<channels, posts, link_score, score_hist, link_cluster, uuid_next,
                   run_backend, ids_before, run_ids, dbscan_labels, notPipe>>

Next ==
    \/ RunScoring
    \/ RunPostScoring
    \/ RunUnifiedClusteringNoRows
    \/ RunUnifiedClusteringEmbedFails
    \/ RunUnifiedClustering
    \/ RunSummarization

Spec == Init /\ [][Next]_vars

(***************************************************************************)
(* Specification SpecScore: collections and runs over stores whose         *)
(* channels and posts may lack an audience size or a view count.  The      *)
(* posts are shorter than the clustering asks for, so a run goes through   *)
(* the scoring stages and finds nothing to cluster.                        *)
(***************************************************************************)
\* channels.subscriber_count is a nullable INTEGER
SubscriberCounts == {SqlNull, SqlInt(-1), SqlInt(0), SqlInt(4)}

\* posts.views is a nullable INTEGER
ViewCounts == {SqlNull, SqlInt(0), SqlInt(3)}

\* getattr(entity, "participants_count", 0) or 0
CollectedSubscribers == {SqlInt(0), SqlInt(2)}

\* getattr(message, "views", 0) or 0
CollectedViews == {SqlInt(0), SqlInt(5)}

ScorePost(i, v) == [Post(i) EXCEPT !.content = Rep("p", 5), !.views = v]

InitScore ==
    /\ channels \in [ChannelIds -> SubscriberCounts]
    /\ \E n \in 0..MaxScorePosts :
           posts \in {[i \in 1..n |-> ScorePost(i, views[i])] :
                          views \in [1..n -> ViewCounts]}
    /\ link_score = [h \in Links |-> 0]
    /\ signals = {}
    /\ link_cluster = [h \in Links |-> NullCluster]
    /\ uuid_next = 1
    /\ clusters = <<>>
    /\ pc = "idle"
    /\ stage_log = <<>>
    /\ db_calls = <<>>
    /\ score_hist = <<>>
    /\ run_status = "none"
    /\ run_backend = 0
    /\ ids_before = {}
    /\ run_ids = {}
    /\ dbscan_labels = NoLabels
    /\ completed = <<>>
    /\ EmbIdle
    /\ SummIdle
    /\ AuthIdle
    /\ ListenerIdle
    /\ ClusterIdle

\* the posts table after the collection of one channel: nothing new, new
\* views of one of its posts, or one more post
PostsAfterCollect(ps, channel_id) ==
    {ps}
    \cup {[ps EXCEPT ![i].views = v] :
              i \in {j \in 1..Len(ps) : ps[j].channel_id = channel_id},
              v \in CollectedViews}
    \cup (IF Len(ps) < MaxScorePosts /\ Post(Len(ps) + 1).channel_id = channel_id
              THEN {Append(ps, ScorePost(Len(ps) + 1, v)) : v \in CollectedViews}
              ELSE {})

\* collector._collect_channel before a run: upsert_channel with the
\* subscriber count, then upsert_post of its messages
Collect ==
    /\ pc = "idle"
    /\ run_status # "collected"
    /\ Len(completed) < MaxRuns
    /\ \E c \in ChannelIds, n \in CollectedSubscribers :
           /\ channels' = [channels EXCEPT ![c] = n]
           /\ posts' \in PostsAfterCollect(posts, c)
    /\ run_status' = "collected"
    /\ UNCHANGED <<link_score, signals, link_cluster, uuid_next, clusters, pc,
                   stage_log, db_calls, score_hist, run_backend, ids_before, run_ids,
                   dbscan_labels, completed, notPipe>>

NextScore ==
    \/ Collect
    \/ RunScoring
    \/ RunPostScoring
    \/ RunUnifiedClusteringNoRows
    \/ RunSummarization

SpecScore == InitScore /\ [][NextScore]_vars

(***************************************************************************)
(* Specification SpecListener: the bot listener process.  One event loop   *)
(* runs the tasks _poll_once creates for /run, /send and /status and the   *)
(* automatic runs; a task runs until it awaits.  run_pipeline awaits the   *)
(* collection and then calls the stages as plain functions.                *)
(***************************************************************************)
MaxListenerPosts == 2

\* Faulty variant: the stages of run_pipeline give up the event loop.
AwaitPoints_StagesYield ==
    {"notify_start", "collect", "pipeline", "send_signals", "notify_done", "notify_error"}

\* the awaits at which the _handle_run task is suspended
AwaitPoints ==
    {"notify_start", "collect", "send_signals", "notify_done", "notify_error"}

\* the event loop can run another task
LoopFree == lis_task = "none" \/ lis_task \in AwaitPoints

\* the run has called clear_signals and run_summarization has not returned
MidRun ==
    /\ lis_task = "pipeline"
    /\ run_status = "running"
    /\ "clear_signals" \in {db_calls[k] : k \in 1..Len(db_calls)}

\* db.get_signals_with_links() as a handler sees it
ReadSignals(cmd) ==
    [cmd |-> cmd, ids |-> SignalIds(signals), running |-> lis_running,
     mid_run |-> MidRun]

InitListener ==
    /\ channels = Subscribers
    /\ posts \in {[i \in 1..n |-> Post(i)] : n \in 0..MaxListenerPosts}
    /\ link_score = [h \in Links |-> 0]
    /\ signals = {}
    /\ link_cluster = [h \in Links |-> NullCluster]
    /\ uuid_next = 1
    /\ clusters = <<>>
    /\ pc = "idle"
    /\ stage_log = <<>>
    /\ db_calls = <<>>
    /\ score_hist = <<>>
    /\ run_status = "none"
    /\ run_backend = 0
    /\ ids_before = {}
    /\ run_ids = {}
    /\ dbscan_labels = NoLabels
    /\ completed = <<>>
    /\ lis_running = FALSE
    /\ lis_task = "none"
    /\ lis_read = NoRead
    /\ lis_active = 0
    /\ lis_log = <<>>
    /\ EmbIdle
    /\ SummIdle
    /\ AuthIdle
    /\ ClusterIdle

\* the variables a step of the listener outside the pipeline leaves alone
notLis == <<embVars, sumVars, authVars, clVars>>

\* Faulty variant: _handle_run does not look at _running.
RunAdmitted_Always(running) == TRUE

\* if _running: notice and return; otherwise the run starts
RunAdmitted(running) == ~running

\* _handle_run, from /run or from _auto_run_loop, while no run is active:
\* _running = True, then the start notice is awaited
HandleRun ==
    /\ LoopFree
    /\ RunAdmitted(lis_running)
    /\ Len(completed) < MaxRuns
    /\ lis_running' = TRUE
    /\ lis_active' = lis_active + 1
    /\ lis_task' = "notify_start"
    /\ lis_log' = <<>>
    /\ UNCHANGED <<lis_read, pipeVars, notLis>>

\* _handle_run while a run is active: a notice, and return
HandleRunRejected ==
    /\ LoopFree
    /\ ~RunAdmitted(lis_running)
    /\ lis_read' = [cmd |-> "/run rejected", ids |-> {}, running |-> TRUE,
                    mid_run |-> FALSE]
    /\ UNCHANGED <<lis_running, lis_task, lis_active, lis_log, pipeVars, notLis>>

\* _handle_status: count = len(db.get_signals_with_links())
HandleStatus ==
    /\ LoopFree
    /\ lis_read' = ReadSignals("/status")
    /\ UNCHANGED <<lis_running, lis_task, lis_active, lis_log, pipeVars, notLis>>

\* _handle_send: send_signals reads db.get_signals_with_links()
HandleSend ==
    /\ LoopFree
    /\ lis_read' = ReadSignals("/send")
    /\ UNCHANGED <<lis_running, lis_task, lis_active, lis_log, pipeVars, notLis>>

\* the start notice has been sent: run_pipeline is called and awaits
\* collector.collect
NotifyStartReturns ==
    /\ lis_task = "notify_start"
    /\ lis_task' = "collect"
    /\ lis_log' = Append(lis_log, "run_pipeline")
    /\ UNCHANGED <<lis_running, lis_read, lis_active, pipeVars, notLis>>

\* collector.collect returns (no new message): the stages follow without an
\* await
CollectReturns ==
    /\ lis_task = "collect"
    /\ lis_task' = "pipeline"
    /\ run_status' = "collected"
    /\ UNCHANGED <<lis_running, lis_read, lis_active, lis_log, channels, posts,
                   link_score, signals,
                   link_cluster, uuid_next, clusters, pc, stage_log, db_calls,
                   score_hist, run_backend, ids_before, run_ids, dbscan_labels,
                   completed, notLis>>

\* the _handle_run task is inside the stages of run_pipeline
InPipeline == lis_task = "pipeline" /\ run_status \in {"collected", "running"}

ListenerRunScoring == InPipeline /\ RunScoring

ListenerRunPostScoring == InPipeline /\ RunPostScoring

ListenerClusteringNoRows == InPipeline /\ RunUnifiedClusteringNoRows

ListenerClusteringEmbedFails == InPipeline /\ RunUnifiedClusteringEmbedFails

ListenerClustering == InPipeline /\ RunUnifiedClustering

ListenerRunSummarization == InPipeline /\ RunSummarization

\* run_pipeline returns: send_signals is called and reads the signals
PipelineReturns ==
    /\ lis_task = "pipeline"
    /\ run_status = "completed"
    /\ lis_task' = "send_signals"
    /\ lis_log' = Append(lis_log, "send_signals")
    /\ lis_read' = ReadSignals("/run")
    /\ UNCHANGED <<lis_running, lis_active, pipeVars, notLis>>

\* Faulty variant: the signals are sent after a run that raised.
PipelineRaises_SendsAnyway ==
    /\ lis_task = "pipeline"
    /\ run_status \in {"failed", "score_failed"}
    /\ lis_task' = "send_signals"
    /\ lis_log' = Append(lis_log, "send_signals")
    /\ UNCHANGED <<lis_running, lis_read, lis_active, pipeVars, notLis>>

\* an exception leaves run_pipeline: except Exception, the error notice
PipelineRaises ==
    /\ lis_task = "pipeline"
    /\ run_status \in {"failed", "score_failed"}
    /\ lis_task' = "notify_error"
    /\ lis_log' = Append(lis_log, "notify_error")
    /\ UNCHANGED <<lis_running, lis_read, lis_active, pipeVars, notLis>>

\* send_signals returns: _last_run is set, count =
\* len(db.get_signals_with_links()), then the final notice
SendReturns ==
    /\ lis_task = "send_signals"
    /\ lis_task' = "notify_done"
    /\ lis_log' = lis_log \o <<"_last_run", "notify_done">>
    /\ lis_read' = ReadSignals("/run")
    /\ UNCHANGED <<lis_running, lis_active, pipeVars, notLis>>

\* finally: _running = False
RunEnds ==
    /\ lis_task \in {"notify_done", "notify_error"}
    /\ lis_task' = "none"
    /\ lis_running' = FALSE
    /\ lis_active' = lis_active - 1
    /\ UNCHANGED <<lis_read, lis_log, pipeVars, notLis>>

NextListener ==
    \/ HandleRun
    \/ HandleRunRejected
    \/ HandleStatus
    \/ HandleSend
    \/ NotifyStartReturns
    \/ CollectReturns
    \/ ListenerRunScoring
    \/ ListenerRunPostScoring
    \/ ListenerClusteringNoRows
    \/ ListenerClusteringEmbedFails
    \/ ListenerClustering
    \/ ListenerRunSummarization
    \/ PipelineReturns
    \/ PipelineRaises
    \/ SendReturns
    \/ RunEnds

SpecListener == InitListener /\ [][NextListener]_vars

(***************************************************************************)
(* Specification SpecAuth: one compute_authority call on every bounded     *)
(* list of (audience size, engagement) pairs and pair of weights.          *)
(***************************************************************************)
AudienceSizes == {1, 2, 3, 8}

Engagements == {0, 1, 5}

Weights == {0, 3, 7}

ChannelPairs == AudienceSizes \X Engagements

InitAuth ==
    /\ auth_data \in UNION { [1..n -> ChannelPairs] : n \in 0..MaxPairs }
    /\ auth_w1 \in Weights
    /\ auth_w2 \in Weights
    /\ auth_result = [raised |-> FALSE, value |-> 0]
    /\ auth_pc = "ready"
    /\ EmbIdle
    /\ SummIdle
    /\ PipeIdle
    /\ ListenerIdle
    /\ ClusterIdle

ComputeAuthorityCall ==
    /\ auth_pc = "ready"
    /\ auth_result' = compute_authority(auth_data, auth_w1, auth_w2)
    /\ auth_pc' = "done"
    /\ UNCHANGED <<auth_data, auth_w1, auth_w2, notAuth>>

NextAuth == ComputeAuthorityCall

SpecAuth == InitAuth /\ [][NextAuth]_vars

(***************************************************************************)
(* The clustering functions by mode: clusterer.run_clustering (links),     *)
(* clusterer.run_text_clustering (posts without links) and                 *)
(* run_unified_clustering, each on bounded rows, labels and top_n.         *)
(***************************************************************************)
NOISE_BASE == 1000

VIRAL_MIN_CHANNELS == 2

TEXT_MIN_LENGTH == 50

\* the authority_score / views values of the rows
ItemScores == {SqlNull, SqlInt(1), SqlInt(2)}

\* NULL sorts below every number
SqlRank(x) == IF x.null THEN -1 ELSE x.v

\* a row of db.get_top_links_by_score: title IS NOT NULL AND title != ''
LinkRow(h, score) ==
    [url_hash        |-> h,
     title           |-> Title1,
     has_description |-> h % 2 = 1,
     description     |-> IF h % 2 = 1 THEN Desc1 ELSE <<>>,
     authority_score |-> score]

\* db.get_top_links_by_score(): ORDER BY authority_score DESC
LinkRowLists ==
    { l \in UNION { [1..n -> {LinkRow(h, x) : h \in 1..n, x \in ItemScores}] :
                      n \in 1..MaxItems } :
        /\ \A i \in 1..Len(l) : l[i].url_hash = i
        /\ \A i \in 1..(Len(l) - 1) :
               SqlRank(l[i].authority_score) >= SqlRank(l[i + 1].authority_score) }

\* a row of db.get_posts_for_clustering
UnifiedRowLists ==
    UNION { { [i \in 1..n |-> ClusteringRow([Post(i) EXCEPT !.authority_score = sc[i]])] :
                sc \in [1..n -> ItemScores] } : n \in 1..MaxItems }

\* a row of db.get_posts_without_links(min_length=50): a post without links
TextRow(i, channel_id, views) ==
    [post_id |-> i, channel_id |-> channel_id, content |-> Rep("x", TEXT_MIN_LENGTH + i),
     views |-> views]

TextRowLists ==
    UNION { { [i \in 1..n |-> TextRow(i, ch[i], vw[i])] :
                ch \in [1..n -> ChannelIds], vw \in [1..n -> {SqlNull, SqlInt(3)}] } :
            n \in 1..MaxItems }

\* Faulty variant: all noise items keep the label -1.
EffectiveLabel_NoiseShared(label, idx) == label

\* effective_label = label if label != -1 else -(idx + 1000), idx from 0
EffectiveLabel(label, idx) == IF label # -1 THEN label ELSE -(idx + NOISE_BASE)

\* One pass of the loop of run_clustering; st holds cluster_map in insertion
\* order and links.cluster_id.
AddLink(st, link, label, idx, uuid0) ==
    LET effective_label == EffectiveLabel(label, idx)
        known == \E k \in 1..Len(st.cluster_map) :
                     st.cluster_map[k].label = effective_label
        cm1   == IF known THEN st.cluster_map
                 ELSE Append(st.cluster_map,
                             [NewCluster(effective_label, Uuid(uuid0 + Len(st.cluster_map)))
                                  EXCEPT !.mode = "link"])
        j     == CHOOSE k \in 1..Len(cm1) : cm1[k].label = effective_label
        c     == cm1[j]
    IN  [cluster_map |->
             [cm1 EXCEPT ![j] =
                 [c EXCEPT !.url_hashes   = Append(@, link.url_hash),
                           !.titles       = Append(@, link.title),
                           !.descriptions = Append(@, IF link.has_description
                                                          THEN link.description ELSE <<>>),
                           !.total_authority_score = @ + OrZero(link.authority_score)]],
         link_cluster |-> assign_link_to_cluster(st.link_cluster, link.url_hash, c.cluster_id)]

RECURSIVE AggregateLinks(_, _, _, _, _)
\* for idx, (link, label) in enumerate(zip(links, labels)): ...
AggregateLinks(links, labels, i, st, uuid0) ==
    IF i > Len(links) THEN st
    ELSE AggregateLinks(links, labels, i + 1,
                        AddLink(st, links[i], labels[i], i - 1, uuid0), uuid0)

RECURSIVE PostTextsFrom(_, _)
\* the texts of the posts i, i - 1, ..., 1 that carry one of the links:
\* ORDER BY p.views DESC, the views of post i being i
PostTextsFrom(i, url_hashes) ==
    IF i = 0 THEN <<>>
    ELSE (IF \E k \in 1..Len(url_hashes), m \in 1..Len(Post(i).url_hashes_raw) :
                 url_hashes[k] = Post(i).url_hashes_raw[m]
              THEN <<Post(i).content>> ELSE <<>>)
         \o PostTextsFrom(i - 1, url_hashes)

POST_TEXTS_LIMIT == 5

\* db.get_post_texts_for_links(url_hashes)
get_post_texts_for_links(url_hashes) ==
    SliceTo(PostTextsFrom(MaxPosts, url_hashes), POST_TEXTS_LIMIT)

\* clusterer.run_clustering(top_n) on the rows and labels given
run_clustering(links, labels, top_n, uuid0, sig, lc) ==
    LET cleared == clear_signals(sig, lc)
        st      == AggregateLinks(links, labels, 1,
                                  [cluster_map |-> <<>>,
                                   link_cluster |-> cleared.link_cluster], uuid0)
        top     == SliceTo(SortByScoreDesc(st.cluster_map), top_n)
    IN  [cluster_map  |-> st.cluster_map,
         clusters     |-> [k \in 1..Len(top) |->
                              [top[k] EXCEPT !.post_texts =
                                  get_post_texts_for_links(top[k].url_hashes)]],
         link_cluster |-> st.link_cluster,
         signals      |-> cleared.signals]

\* One pass of the loop of run_text_clustering.
AddTextRow(cluster_map, row, label, uuid0) ==
    IF label = -1 THEN cluster_map
    ELSE
        LET known == \E k \in 1..Len(cluster_map) : cluster_map[k].label = label
            cm1   == IF known THEN cluster_map
                     ELSE Append(cluster_map,
                                 [NewCluster(label, Uuid(uuid0 + Len(cluster_map)))
                                      EXCEPT !.mode = "text"])
            j     == CHOOSE k \in 1..Len(cm1) : cm1[k].label = label
            c     == cm1[j]
        IN  [cm1 EXCEPT ![j] =
                [c EXCEPT !.post_texts  = Append(@, row.content),
                          !.post_ids    = Append(@, row.post_id),
                          !.channel_ids = Append(@, row.channel_id),
                          !.total_authority_score = @ + OrZero(row.views)]]

RECURSIVE AggregateTexts(_, _, _, _, _)
AggregateTexts(rows, labels, i, cluster_map, uuid0) ==
    IF i > Len(rows) THEN cluster_map
    ELSE AggregateTexts(rows, labels, i + 1,
                        AddTextRow(cluster_map, rows[i], labels[i], uuid0), uuid0)

\* Faulty variant of the gate: two members are enough.
IsViral_BySize(c) == Len(c.channel_ids) >= VIRAL_MIN_CHANNELS

\* len(set(c.channel_ids)) >= 2
IsViral(c) ==
    Cardinality({c.channel_ids[k] : k \in 1..Len(c.channel_ids)}) >= VIRAL_MIN_CHANNELS

\* clusterer.run_text_clustering(top_n) on the rows and labels given
run_text_clustering(rows, labels, top_n, uuid0) ==
    LET cluster_map == AggregateTexts(rows, labels, 1, <<>>, uuid0)
        viral       == SelectSeq(cluster_map, IsViral)
    IN  [cluster_map |-> cluster_map,
         clusters    |-> SliceTo(SortByScoreDesc(viral), top_n)]

InitCluster ==
    /\ \/ cl_mode = "link" /\ cl_rows \in LinkRowLists
                           /\ cl_links = [h \in 1..Len(cl_rows) |-> NullCluster]
       \/ cl_mode = "unified" /\ cl_rows \in UnifiedRowLists
                              /\ cl_links = [h \in Links |-> NullCluster]
       \/ cl_mode = "text" /\ cl_rows \in TextRowLists
                           /\ cl_links = [h \in Links |-> NullCluster]
    /\ cl_labels \in Labellings(Len(cl_rows))
    /\ cl_top_n \in 1..MaxTopN
    /\ cl_map = <<>>
    /\ cl_clusters = <<>>
    /\ cl_signals = {}
    /\ cl_pc = "ready"
    /\ EmbIdle
    /\ SummIdle
    /\ PipeIdle
    /\ AuthIdle
    /\ ListenerIdle

\* clusters = run_clustering(top_n)
ClusterLinks ==
    /\ cl_pc = "ready"
    /\ cl_mode = "link"
    /\ LET res == run_clustering(cl_rows, cl_labels, cl_top_n, 1, cl_signals, cl_links)
       IN  /\ cl_map' = res.cluster_map
           /\ cl_clusters' = res.clusters
           /\ cl_links' = res.link_cluster
           /\ cl_signals' = res.signals
    /\ cl_pc' = "clustered"
    /\ UNCHANGED <<cl_mode, cl_rows, cl_labels, cl_top_n, notCl>>

\* clusters = run_unified_clustering(top_n)
ClusterUnified ==
    /\ cl_pc = "ready"
    /\ cl_mode = "unified"
    /\ LET cleared == clear_signals(cl_signals, cl_links)
           res     == BuildClusters(cl_rows, cl_labels, cl_top_n, 1, cleared.link_cluster)
       IN  /\ cl_map' = Aggregate(cl_rows, cl_labels, 1, <<>>, 1)
           /\ cl_clusters' = res.clusters
           /\ cl_links' = res.link_cluster
           /\ cl_signals' = cleared.signals
    /\ cl_pc' = "clustered"
    /\ UNCHANGED <<cl_mode, cl_rows, cl_labels, cl_top_n, notCl>>

\* clusters = run_text_clustering(top_n)
ClusterTexts ==
    /\ cl_pc = "ready"
    /\ cl_mode = "text"
    /\ LET res == run_text_clustering(cl_rows, cl_labels, cl_top_n, 1)
       IN  /\ cl_map' = res.cluster_map
           /\ cl_clusters' = res.clusters
    /\ cl_pc' = "clustered"
    /\ UNCHANGED <<cl_mode, cl_rows, cl_labels, cl_top_n, cl_links, cl_signals, notCl>>

\* run_summarization(clusters) after a link or a unified clustering; the
\* generative backends behave alike for all clusters of the call
SummarizeClusters ==
    /\ cl_pc = "clustered"
    /\ cl_mode \in {"link", "unified"}
    /\ \E o \in SummRunOutcomes :
           cl_signals' = run_summarization(cl_signals, cl_clusters,
                                           [k \in 1..Len(cl_clusters) |-> o])
    /\ cl_pc' = "summarized"
    /\ UNCHANGED <<cl_mode, cl_rows, cl_labels, cl_top_n, cl_map, cl_clusters, cl_links,
                   notCl>>

NextCluster ==
    \/ ClusterLinks
    \/ ClusterUnified
    \/ ClusterTexts
    \/ SummarizeClusters

SpecCluster == InitCluster /\ [][NextCluster]_vars

(***************************************************************************)
(* Properties of the pipeline run (checked under Spec).                    *)
(***************************************************************************)
\* C1: when a run fails because every embedding backend failed (_embed_texts
\* raised), the signals persisted by the previous run are left intact: the
\* run does not end with the signal set cleared and nothing written.
C1_EmbedFailureKeepsSignals ==
    run_status = "failed" => SignalIds(signals) = ids_before

\* No row of an earlier run survives a completed run, and every row belongs
\* to a cluster of the most recent run.
OnlyLatestRun ==
    /\ SignalIds(signals) \subseteq run_ids
    /\ SignalIds(signals) \cap ids_before = {}

\* C2 as stated: after any number of completed runs the signals table holds
\* only signals of the clusters of the most recent run, and over the
\* unchanged store the signal count after run n+1 is not larger than after
\* run n.
C2_LatestRunOnly_CountNeverGrows ==
    run_status = "completed" =>
        /\ OnlyLatestRun
        /\ \A k \in 1..(Len(completed) - 1) :
               completed[k + 1].count <= completed[k].count

\* C2, amended: after any number of completed runs the signals table holds
\* only signals of the clusters of the most recent run, and over the
\* unchanged store the signal count after run n+1 is not larger than after
\* run n when the same embedding backend produced the vectors of both runs.
C2_LatestRunOnly_CountSameBackend ==
    run_status = "completed" =>
        /\ OnlyLatestRun
        /\ \A k \in 1..(Len(completed) - 1) :
               completed[k + 1].backend = completed[k].backend
                   => completed[k + 1].count <= completed[k].count

\* A second completed run over the same backend that replaced the signals of
\* the first one.
C2_Witness ==
    /\ run_status = "completed"
    /\ Len(completed) >= 2
    /\ completed[Len(completed)].backend = completed[Len(completed) - 1].backend
    /\ ids_before # {}
    /\ signals # {}

(***************************************************************************)
(* Properties of the stages of a run (checked under Spec).                 *)
(***************************************************************************)
Range(seq) == {seq[k] : k \in 1..Len(seq)}

IsPrefix(a, b) == Len(a) <= Len(b) /\ \A k \in 1..Len(a) : a[k] = b[k]

ClearCalls == {k \in 1..Len(db_calls) : db_calls[k] = "clear_signals"}

\* C12: in every run that reaches the clustering, clear_signals is called
\* exactly once, every upsert_signal of the run comes after it, and the rows
\* the run wrote are all in the table when the run has completed.
C12_ClearOnceBeforeWrites ==
    /\ Cardinality(ClearCalls) <= 1
    /\ "run_unified_clustering" \in Range(stage_log) => Cardinality(ClearCalls) = 1
    /\ \A k \in 1..Len(db_calls) :
           db_calls[k] = "upsert_signal" =>
               \E j \in 1..(k - 1) : db_calls[j] = "clear_signals"
    /\ run_status = "completed" => run_ids \subseteq SignalIds(signals)

\* A completed run that cleared the rows of the run before it and wrote two
\* rows of its own.
C12_Witness ==
    /\ run_status = "completed"
    /\ ids_before # {}
    /\ Cardinality(run_ids) = 2
    /\ db_calls = <<"clear_signals", "upsert_signal", "upsert_signal">>

PostIds(ps) == {ps[i].post_id : i \in 1..Len(ps)}

\* a step of run_scoring, run_post_scoring or run_unified_clustering keeps
\* the rows of posts, links and signals
KeepsRows ==
    pc \in {Before("run_scoring"), Before("run_post_scoring"),
            Before("run_unified_clustering")}
        => (/\ PostIds(posts') = PostIds(posts)
            /\ DOMAIN link_score' = DOMAIN link_score
            /\ SignalIds(signals') = SignalIds(signals))

\* C13 as stated: the scoring functions and the clustering functions change
\* only score and cluster-assignment fields and never insert or delete a row
\* of posts, links or signals.
C13_ScoringAndClusteringKeepRows == [][KeepsRows]_vars

\* C14: the stages of a run are called in the order link scoring, post
\* scoring, clustering, summarization, and once the posts of a run are
\* scored every post score is the one computed from the link scores the run
\* wrote before.
C14_StagesInOrder ==
    /\ IsPrefix(stage_log, <<"run_scoring", "run_post_scoring",
                             "run_unified_clustering", "run_summarization">>)
    /\ "run_post_scoring" \in Range(stage_log) =>
           /\ "run_scoring" \in Range(stage_log)
           /\ \A i \in 1..Len(posts) :
                  posts[i].authority_score =
                      SqlInt(PostScore(posts[i], channels, link_score))

\* Clustering has returned in a run whose first post has a link with a
\* score.
C14_Witness ==
    /\ stage_log = <<"run_scoring", "run_post_scoring", "run_unified_clustering">>
    /\ Len(posts) >= 1
    /\ MaxUrlAuth(posts[1], link_score) > 0

\* C20: a run over a store without eligible posts does not fail, calls no
\* embedding backend, writes no signal, and completes with an empty
\* signal set.
C20_EmptyInputIsNoError ==
    get_posts_for_clustering(posts) = <<>> =>
        /\ run_status # "failed"
        /\ run_backend = 0
        /\ "upsert_signal" \notin Range(db_calls)
        /\ (run_status = "completed" => signals = {} /\ clusters = <<>>)

\* A run over the empty store has completed.
C20_Witness ==
    /\ posts = <<>>
    /\ run_status = "completed"
    /\ stage_log = <<"run_scoring", "run_post_scoring",
                     "run_unified_clustering", "run_summarization">>
    /\ signals = {}

RECURSIVE ContractPairs(_, _)
\* the (audience size, engagement) pairs of a link, a missing or non-positive
\* audience size taken as 1 and a missing engagement as 0
ContractPairs(rows, url_hash) ==
    IF rows = <<>> THEN <<>>
    ELSE (IF Head(rows).url_hash = url_hash
              THEN << <<PostSubCount(Head(rows).subscriber_count),
                        OrZero(Head(rows).views)>> >>
              ELSE <<>>)
         \o ContractPairs(Tail(rows), url_hash)

\* the score a full recompute gives a link
FreshLinkScore(ps, chans, url_hash) ==
    LET pairs == ContractPairs(JoinRows(ps, chans), url_hash)
    IN  IF pairs = <<>> THEN 0
        ELSE Round6(AuthorityTotal(pairs, AUTHORITY_W1, AUTHORITY_W2))

LastScoring == score_hist[Len(score_hist)]

C18_ScoringIsIdempotent ==
    (Len(score_hist) = 2 /\ score_hist[1].inputs = score_hist[2].inputs) =>
        /\ score_hist[2].link_score = score_hist[1].link_score
        /\ score_hist[2].post_scores = score_hist[1].post_scores

\* Two completed scorings of the same store, with a link and a post that
\* have a score above 0.
C18_Witness ==
    /\ Len(score_hist) = 2
    /\ score_hist[1].inputs = score_hist[2].inputs
    /\ \E h \in Links : score_hist[2].link_score[h] > 0
    /\ \E i \in 1..Len(score_hist[2].post_scores) :
           /\ ~score_hist[2].post_scores[i].null
           /\ score_hist[2].post_scores[i].v > 0

(***************************************************************************)
(* Properties of the bot listener (checked under SpecListener).            *)
(***************************************************************************)
\* C11: no read of the signal set by a /send or /status handler happens
\* between the clear_signals of a run and the return of that run's
\* run_summarization.
C11_NoReadMidRun ==
    lis_read.cmd \in {"/send", "/status"} => ~lis_read.mid_run

\* /status has been handled while the run task, its signals written, awaits
\* the sending; the handler saw the rows of the run.
C11_Witness ==
    /\ lis_read.cmd = "/status"
    /\ lis_read.running
    /\ lis_task = "send_signals"
    /\ lis_read.ids # {}
    /\ lis_read.ids = run_ids

\* C27: at most one pipeline run is in progress; a /run or an automatic
\* trigger that comes while one is in progress is answered with a notice
\* and starts nothing; _running is False once the run task has ended,
\* whether the pipeline completed or raised.
C27_OneRunAtATime ==
    /\ lis_active <= 1
    /\ lis_running <=> lis_active = 1
    /\ lis_running <=> lis_task # "none"
    /\ lis_read.cmd = "/run rejected" => lis_read.running

\* A run that raised has ended, _running is False again, and a /run that
\* came during it was rejected.
C27_Witness ==
    /\ lis_task = "none"
    /\ ~lis_running
    /\ run_status = "failed"
    /\ lis_log = <<"run_pipeline", "notify_error">>
    /\ lis_read.cmd = "/run rejected"

\* C30: when run_pipeline raised, the run sent no signals, did not set
\* _last_run and sent the error notice, not the success notice; the signals
\* are sent only after run_pipeline returned.
C30_NoSendAfterFailedRun ==
    /\ (lis_task \in {"notify_error", "none"}
            /\ run_status \in {"failed", "score_failed"})
           => lis_log = <<"run_pipeline", "notify_error">>
    /\ "send_signals" \in {lis_log[k] : k \in 1..Len(lis_log)}
           => run_status = "completed"

\* The pipeline raised after an earlier run of the listener had completed
\* and sent its signals.
C30_Witness ==
    /\ lis_task = "notify_error"
    /\ run_status = "failed"
    /\ Len(completed) >= 1
    /\ lis_log = <<"run_pipeline", "notify_error">>

(***************************************************************************)
(* Properties of the embedding chain (checked under SpecEmbed).            *)
(***************************************************************************)
EmbDone == emb_pc = "done"

IsRemote(i) == StartsWithGemini(emb_chain[i])

IsQuotaFailure(o) == o.kind = "ClientError" /\ o.code = "429"

IsAuthFailure(o) == o.kind = "ClientError" /\ o.code \in {"401", "403"}

\* a failure that is neither a quota nor an authentication failure
IsUnrecognizedFailure(o) ==
    o.kind # "ok" /\ ~IsQuotaFailure(o) /\ ~IsAuthFailure(o)

IsSoftRemoteFailure(i) ==
    IsRemote(i) /\ (IsQuotaFailure(emb_outcomes[i]) \/ IsUnrecognizedFailure(emb_outcomes[i]))

EmbTried == emb_result.tried

\* C3: a quota failure or an unrecognized failure of a remote backend never
\* ends the chain: the next backend of the list is the next one called, and
\* when the backends before the first succeeding one all failed that way the
\* call returns that backend's vectors and does not raise.
C3_QuotaFallsThrough ==
    EmbDone =>
        /\ \A k \in 1..Len(EmbTried) :
              (IsSoftRemoteFailure(EmbTried[k]) /\ EmbTried[k] < Len(emb_chain))
                  => (k < Len(EmbTried) /\ EmbTried[k + 1] = EmbTried[k] + 1)
        /\ \A j \in 1..Len(emb_chain) :
              (emb_outcomes[j].kind = "ok" /\ \A i \in 1..(j - 1) : IsSoftRemoteFailure(i))
                  => /\ ~emb_result.raised
                     /\ emb_result.by = j
                     /\ emb_result.vecs = Vectors(emb_chain[j], emb_texts)
                     /\ EmbTried = [i \in 1..j |-> i]

\* [A quota-exceeded, B succeeds] returned B's vectors
C3_Witness ==
    /\ EmbDone
    /\ Len(emb_chain) >= 2
    /\ IsRemote(1) /\ IsQuotaFailure(emb_outcomes[1])
    /\ emb_outcomes[2].kind = "ok"
    /\ ~emb_result.raised
    /\ emb_result.vecs = Vectors(emb_chain[2], emb_texts)

\* C4: the call either returns the vectors some backend produced (one per
\* text) or raises the fatal error; it raises when every backend failed and
\* never returns without vectors.
C4_VectorsOrFatal ==
    EmbDone =>
        /\ \/ /\ emb_result.raised
              /\ emb_result.exc = "RuntimeError"
           \/ /\ ~emb_result.raised
              /\ emb_result.by \in 1..Len(emb_chain)
              /\ emb_outcomes[emb_result.by].kind = "ok"
              /\ emb_result.vecs = Vectors(emb_chain[emb_result.by], emb_texts)
              /\ Len(emb_result.vecs) = Len(emb_texts)
              /\ Len(emb_result.vecs) >= 1
        /\ (\A i \in 1..Len(emb_chain) : emb_outcomes[i].kind # "ok")
              => (emb_result.raised /\ emb_result.exc = "RuntimeError")

\* [A quota-exceeded, B quota-exceeded] raised the fatal error
C4_Witness ==
    /\ EmbDone
    /\ Len(emb_chain) = 2
    /\ \A i \in 1..2 : IsRemote(i) /\ IsQuotaFailure(emb_outcomes[i])
    /\ EmbTried = <<1, 2>>
    /\ emb_result.raised

\* C5: after an authentication/permission failure (401/403) of a remote
\* backend no remote backend later in the list is called.
C5_AuthStopsRemote ==
    EmbDone =>
        \A k \in 1..Len(EmbTried) :
            (IsRemote(EmbTried[k]) /\ IsAuthFailure(emb_outcomes[EmbTried[k]]))
                => \A m \in (k + 1)..Len(EmbTried) : ~IsRemote(EmbTried[m])

\* a 401/403 on the first backend, with another remote backend behind it
C5_Witness ==
    /\ EmbDone
    /\ Len(emb_chain) >= 2
    /\ IsRemote(1) /\ IsAuthFailure(emb_outcomes[1])
    /\ IsRemote(2) /\ emb_outcomes[2].kind = "ok"
    /\ EmbTried = <<1>>

\* C6: after an authentication failure of a remote backend a local backend
\* later in the chain is still called, and the call succeeds when that local
\* backend succeeds.
C6_LocalTriedAfterAuth ==
    EmbDone =>
        \A i \in 1..Len(emb_chain) :
            (/\ i \in {EmbTried[k] : k \in 1..Len(EmbTried)}
             /\ IsRemote(i) /\ IsAuthFailure(emb_outcomes[i]))
                => \A j \in (i + 1)..Len(emb_chain) :
                      (~IsRemote(j) /\ \A m \in (i + 1)..(j - 1) : IsRemote(m))
                          => /\ j \in {EmbTried[k] : k \in 1..Len(EmbTried)}
                             /\ emb_outcomes[j].kind = "ok" => ~emb_result.raised

\* C7: when a local backend fails the chain stops: it is the last backend
\* called and the call ends with the fatal error.
C7_LocalFailureStops ==
    EmbDone =>
        \A k \in 1..Len(EmbTried) :
            (~IsRemote(EmbTried[k]) /\ emb_outcomes[EmbTried[k]].kind # "ok")
                => /\ k = Len(EmbTried)
                   /\ emb_result.raised
                   /\ emb_result.exc = "RuntimeError"

\* a local backend failed with backends left behind it, one that would succeed
C7_Witness ==
    /\ EmbDone
    /\ Len(emb_chain) >= 2
    /\ ~IsRemote(1) /\ emb_outcomes[1].kind # "ok"
    /\ emb_outcomes[2].kind = "ok"
    /\ EmbTried = <<1>>
    /\ emb_result.raised

\* C21: the embedding call returns exactly one vector per input text in
\* input order: whatever the number of texts and wherever the boundaries of
\* the batches of 100 fall, the vector at index k of the result is the
\* embedding of text k.
C21_OneVectorPerTextInOrder ==
    (emb_pc = "done" /\ ~emb_result.raised) =>
        /\ Len(emb_result.vecs) = Len(emb_texts)
        /\ \A k \in 1..Len(emb_texts) : emb_result.vecs[k][2] = emb_texts[k]

\* A remote backend has returned the vectors of a list that needed two full
\* batches and a last batch of one text.
C21_Witness ==
    /\ emb_pc = "done"
    /\ ~emb_result.raised
    /\ StartsWithGemini(emb_chain[emb_result.by])
    /\ Len(emb_texts) = 2 * BATCH_SIZE + 1
    /\ emb_result.vecs[2 * BATCH_SIZE + 1] = <<emb_chain[emb_result.by], 2 * BATCH_SIZE + 1>>

\* C29: all vectors returned by one _embed_texts call come from a single
\* backend: the list a remote backend is building holds its own vectors of
\* the texts before the current batch and nothing else, so when a backend
\* fails after some of its batches succeeded, the vectors of those batches
\* are discarded and the next backend embeds the full text list from the
\* start.
C29_SingleBackendVectors ==
    /\ emb_pc = "gemini" =>
           emb_all_vecs = Vectors(emb_chain[emb_model],
                                  SubSeq(emb_texts, 1, Min(emb_i, Len(emb_texts))))
    /\ (emb_pc = "done" /\ ~emb_result.raised) =>
           /\ Len(emb_result.vecs) = Len(emb_texts)
           /\ \A k \in 1..Len(emb_result.vecs) :
                  emb_result.vecs[k][1] = emb_chain[emb_result.by]

\* The first backend failed after its first batch had succeeded, and the
\* second backend, another remote one, returned the vectors of all texts.
C29_Witness ==
    /\ emb_pc = "done"
    /\ ~emb_result.raised
    /\ emb_result.by = 2
    /\ StartsWithGemini(emb_chain[1])
    /\ StartsWithGemini(emb_chain[2])
    /\ emb_chain[1] # emb_chain[2]
    /\ Len(emb_texts) > BATCH_SIZE
    /\ Len(emb_result.vecs) = Len(emb_texts)

(***************************************************************************)
(* Claims about the clustering functions (SpecCluster).                    *)
(***************************************************************************)
\* the rows that are members of a cluster
MemberIdx(c) ==
    {i \in 1..Len(cl_rows) :
        IF cl_mode = "link" THEN cl_rows[i].url_hash \in Range(c.url_hashes)
                            ELSE cl_rows[i].post_id \in Range(c.post_ids)}

\* the score of a row, a missing one counted as 0
RowScore(i) ==
    IF cl_mode = "link" THEN OrZero(cl_rows[i].authority_score)
    ELSE IF cl_mode = "text" THEN OrZero(cl_rows[i].views)
    ELSE IF cl_rows[i].has_score THEN cl_rows[i].authority_score ELSE 0

RECURSIVE SumOfScores(_)
SumOfScores(idx) ==
    IF idx = {} THEN 0
    ELSE LET i == CHOOSE j \in idx : TRUE
         IN  RowScore(i) + SumOfScores(idx \ {i})

C25_TopKByScore ==
    (cl_mode \in {"link", "unified"} /\ cl_pc # "ready") =>
        /\ Len(cl_clusters) = Min(cl_top_n, Len(cl_map))
        /\ \A k \in 1..(Len(cl_clusters) - 1) :
               cl_clusters[k].total_authority_score
                   >= cl_clusters[k + 1].total_authority_score
        /\ \A m \in 1..Len(cl_map) :
               cl_map[m].total_authority_score = SumOfScores(MemberIdx(cl_map[m]))
        /\ \A k \in 1..Len(cl_clusters) :
               \E m \in 1..Len(cl_map) :
                   /\ cl_map[m].cluster_id = cl_clusters[k].cluster_id
                   /\ cl_map[m].total_authority_score
                          = cl_clusters[k].total_authority_score
        /\ \A m \in 1..Len(cl_map) :
               cl_map[m].cluster_id \notin ClusterIds(cl_clusters) =>
                   \A k \in 1..Len(cl_clusters) :
                       cl_map[m].total_authority_score
                           <= cl_clusters[k].total_authority_score

\* Three clusters for top_n = 2, the second one created being the best: it
\* is returned first and the weakest one is cut.
C25_Witness ==
    /\ cl_mode = "link"
    /\ cl_pc = "clustered"
    /\ cl_top_n = 2
    /\ Len(cl_map) = 3
    /\ cl_map[2].total_authority_score > cl_map[1].total_authority_score
    /\ cl_map[1].total_authority_score > cl_map[3].total_authority_score
    /\ cl_clusters[1].cluster_id = cl_map[2].cluster_id

\* the channels of the rows that are members of a cluster
MemberChannels(c) == {cl_rows[i].channel_id : i \in MemberIdx(c)}

\* C26: with the viral gate every returned cluster has members from at
\* least 2 distinct source channels; a cluster whose members all come from
\* one channel is never returned, whatever its size or score.
C26_ViralGate ==
    (cl_mode = "text" /\ cl_pc # "ready") =>
        /\ \A k \in 1..Len(cl_clusters) :
               Cardinality(MemberChannels(cl_clusters[k])) >= 2
        /\ \A m \in 1..Len(cl_map) :
               Cardinality(MemberChannels(cl_map[m])) < 2 =>
                   cl_map[m].cluster_id \notin ClusterIds(cl_clusters)

\* Two clusters of two posts each: the one with the higher score has both
\* posts from one channel and is left out, the other one is returned.
C26_Witness ==
    /\ cl_mode = "text"
    /\ cl_pc = "clustered"
    /\ cl_top_n = 2
    /\ Len(cl_map) = 2
    /\ Cardinality(MemberChannels(cl_map[1])) = 1
    /\ cl_map[1].total_authority_score > cl_map[2].total_authority_score
    /\ ClusterIds(cl_clusters) = {cl_map[2].cluster_id}

\* C28: after a completed run (clustering followed by summarization) every
\* link whose cluster_id is not null refers to a cluster that has a
\* persisted signal row; no link points at a cluster that was cut by the
\* top-K selection.
C28_LinksPointAtSignals ==
    cl_pc = "summarized" =>
        \A h \in DOMAIN cl_links :
            cl_links[h] # NullCluster => cl_links[h] \in SignalIds(cl_signals)

(***************************************************************************)
(* Properties of the summarization chain (checked under SpecSumm).         *)
(***************************************************************************)
SummDone == sum_pc = "done"

SummCluster == SummClusters[sum_cluster]

SummTried == sum_result.tried

RECURSIVE FirstNonBlank(_)
\* the first string of a list that is not empty or blank, <<>> if none
FirstNonBlank(strings) ==
    IF strings = <<>> THEN <<>>
    ELSE IF Strip(Head(strings)) # <<>> THEN Head(strings)
    ELSE FirstNonBlank(Tail(strings))

\* x is a non-empty excerpt of s: a prefix of s, possibly marked as cut
IsExcerptOf(x, s) ==
    \E n \in 1..Len(s) : x = SliceTo(s, n) \/ x = SliceTo(s, n) \o ELLIPSIS

HasAnyText(c) ==
    \/ FirstNonBlank(c.titles) # <<>>
    \/ FirstNonBlank(c.descriptions) # <<>>
    \/ FirstNonBlank(c.post_texts) # <<>>

\* C8: summarize_cluster and summarize_text_cluster never raise and always
\* return a title and a summary that are both non-empty, whatever the
\* backends do and whatever the cluster holds.
C8_TitleAndSummaryNonEmpty ==
    SummDone =>
        /\ ~sum_result.raised
        /\ sum_result.title # <<>>
        /\ sum_result.summary # <<>>

\* C9: when every backend failed or the chain was aborted, the title is the
\* first available source title, or else a truncated excerpt of the first
\* source text; the summary is the first non-empty source description, or
\* else a text excerpt; both are non-empty when the cluster has any text;
\* the entity string is empty.
C9_ExtractiveFallback ==
    (SummDone /\ ~sum_result.answered) =>
        LET c == SummCluster IN
        /\ IF FirstNonBlank(c.titles) # <<>>
               THEN sum_result.title = FirstNonBlank(c.titles)
               ELSE c.post_texts # <<>> => IsExcerptOf(sum_result.title, c.post_texts[1])
        /\ IF FirstNonBlank(c.descriptions) # <<>>
               THEN IsExcerptOf(sum_result.summary, Strip(FirstNonBlank(c.descriptions)))
               ELSE c.post_texts # <<>> =>
                        \E k \in 1..Len(c.post_texts) :
                            IsExcerptOf(sum_result.summary, c.post_texts[k])
        /\ HasAnyText(c) => (sum_result.title # <<>> /\ sum_result.summary # <<>>)
        /\ sum_result.tickers_raw = <<>>

IsSummQuotaFailure(o) == o.kind = "ClientError" /\ o.code = "429"

IsSummOtherFailure(o) == o.kind # "ok" /\ ~IsSummQuotaFailure(o)

\* the (title, summary) the two functions extract from the cluster itself
ExtractiveTitle(c) ==
    IF c.mode = "text"
        THEN (IF c.post_texts # <<>>
                  THEN SliceTo(c.post_texts[1], TEXT_TITLE_LEN) \o ELLIPSIS
                  ELSE DEFAULT_TEXT_TITLE)
        ELSE (IF c.titles # <<>> THEN c.titles[1] ELSE DEFAULT_TITLE)

ExtractiveSummary(c) ==
    IF c.mode = "text"
        THEN (IF c.post_texts # <<>> THEN SliceTo(c.post_texts[1], SUMMARY_MAX_LEN)
                                     ELSE NO_SUMMARY)
        ELSE FirstDescription(c.descriptions)

\* C10: the backends of the summarization chain are called one at a time in
\* configured order, each at most once; a quota failure moves on to the next
\* backend, any other failure ends the chain: no later backend is called and
\* the extractive fallback is returned.
C10_SummChainOrder ==
    SummDone =>
        /\ Len(SummTried) \in 1..Len(sum_chain)
        /\ SummTried = [k \in 1..Len(SummTried) |-> k]
        /\ \A k \in 1..Len(SummTried) :
              /\ (IsSummQuotaFailure(sum_outcomes[k]) /\ k < Len(sum_chain))
                     => Len(SummTried) > k
              /\ IsSummOtherFailure(sum_outcomes[k])
                     => /\ k = Len(SummTried)
                        /\ ~sum_result.answered
                        /\ sum_result.title = ExtractiveTitle(SummCluster)
                        /\ sum_result.summary = ExtractiveSummary(SummCluster)
                        /\ sum_result.tickers_raw = <<>>
              /\ sum_outcomes[k].kind = "ok"
                     => (k = Len(SummTried) /\ sum_result.answered)

\* first backend out of quota, second fails otherwise, third would answer
C10_Witness ==
    /\ SummDone
    /\ Len(sum_chain) = 3
    /\ IsSummQuotaFailure(sum_outcomes[1])
    /\ IsSummOtherFailure(sum_outcomes[2])
    /\ sum_outcomes[3].kind = "ok"
    /\ SummTried = <<1, 2>>
    /\ ~sum_result.answered

\* the clustering stage of a run returns: the identifiers of its clusters
\* are pairwise distinct and none of them is an identifier the store or an
\* earlier run holds
ClustersAreFresh ==
    (pc' = "run_unified_clustering" /\ pc # "run_unified_clustering") =>
        /\ Cardinality(ClusterIds(clusters')) = Len(clusters')
        /\ ClusterIds(clusters')
               \cap (run_ids \cup ids_before \cup SignalIds(signals)
                         \cup {link_cluster[h] : h \in DOMAIN link_cluster}) = {}

\* the summarization stage of a run returns: the signals table holds one row
\* per cluster of the run, with the cluster's aggregate score, and no other
OneSignalPerCluster ==
    (pc = "run_unified_clustering" /\ run_status' = "completed") =>
        /\ Cardinality(signals') = Len(clusters)
        /\ SignalIds(signals') = ClusterIds(clusters)
        /\ \A k \in 1..Len(clusters) :
               \E s \in signals' :
                   /\ s.cluster_id = clusters[k].cluster_id
                   /\ s.total_authority_score = clusters[k].total_authority_score

FreshClustersOneSignalEach == ClustersAreFresh /\ OneSignalPerCluster

\* C22: a completed run persists exactly one signal row per cluster that
\* clustering returned, carrying that cluster's aggregate authority score;
\* the identifiers of the clusters of a run are pairwise distinct and differ
\* from every identifier of an earlier run, so no signal write overwrites the
\* row of another cluster.
C22_OneSignalPerFreshCluster == [][FreshClustersOneSignalEach]_vars

\* A second run has completed with two signals whose scores differ, after
\* a first run that had used identifiers too.
C22_Witness ==
    /\ run_status = "completed"
    /\ Len(completed) = 2
    /\ completed[1].count >= 1
    /\ Cardinality(signals) = 2
    /\ Cardinality({s.total_authority_score : s \in signals}) = 2

\* the channels that carried a link: those of the posts that contain it
ChannelsCarrying(ps, url_hash) ==
    {ps[i].channel_id : i \in {j \in 1..Len(ps) : url_hash \in Range(ps[j].url_hashes_raw)}}

\* C23: the score of a link is a sum with exactly one term per channel that
\* carried the link, however many posts of that channel contain the link:
\* after the link scoring the stored score of every link is
\* compute_authority over as many (audience, engagement) pairs as there are
\* channels carrying it.
C23_OneTermPerChannel ==
    pc = "run_scoring" =>
        LET data == fetch_link_channel_data(posts, channels)
        IN  \A h \in DOMAIN data.map :
                /\ link_score[h] = LinkScore(data.map, h).value
                /\ Len(data.map[h]) = Cardinality(ChannelsCarrying(posts, h))

(***************************************************************************)
(* Properties of compute_authority (checked under SpecAuth).               *)
(***************************************************************************)
AuthDone == auth_pc = "done"

\* the list with the pair at position k replaced
WithPair(data, k, S, V) == [data EXCEPT ![k] = <<S, V>>]

\* Raising the engagement of one pair never lowers the score.
MonotoneInEngagement ==
    \A k \in 1..Len(auth_data) : \A V \in Engagements :
        V >= auth_data[k][2] =>
            compute_authority(WithPair(auth_data, k, auth_data[k][1], V),
                              auth_w1, auth_w2).value >= auth_result.value

\* Raising the audience size of one pair never lowers the score.
MonotoneInAudience ==
    \A k \in 1..Len(auth_data) : \A S \in AudienceSizes :
        S >= auth_data[k][1] =>
            compute_authority(WithPair(auth_data, k, S, auth_data[k][2]),
                              auth_w1, auth_w2).value >= auth_result.value

\* C16 as stated: compute_authority is non-decreasing in engagement
\* (audience size fixed) and non-decreasing in audience size (engagement
\* fixed), for audience sizes >= 1, engagements >= 0 and weights >= 0.
C16_MonotoneInBoth ==
    AuthDone => ~auth_result.raised /\ MonotoneInEngagement /\ MonotoneInAudience

\* C16, amended: compute_authority is non-decreasing in engagement (audience
\* size fixed); it is non-decreasing in the audience size of a pair whose
\* engagement is 0, for audience sizes >= 1, engagements >= 0 and weights
\* >= 0.
C16_MonotoneInEngagement ==
    AuthDone =>
        /\ ~auth_result.raised
        /\ MonotoneInEngagement
        /\ \A k \in 1..Len(auth_data) : \A S \in AudienceSizes :
               (auth_data[k][2] = 0 /\ S >= auth_data[k][1]) =>
                   compute_authority(WithPair(auth_data, k, S, 0),
                                     auth_w1, auth_w2).value >= auth_result.value

\* A call with two pairs and positive weights, one pair below the largest
\* engagement and one pair without engagement below the largest audience.
C16_Witness ==
    /\ AuthDone
    /\ Len(auth_data) = 2
    /\ auth_w1 > 0 /\ auth_w2 > 0
    /\ auth_data[1] = <<2, 1>>
    /\ auth_data[2] = <<1, 0>>
    /\ auth_result.value > 0

\* C19: compute_authority applied to an empty list returns 0.0 and does not
\* raise.
C19_EmptyListScoresZero ==
    (AuthDone /\ auth_data = <<>>) => (~auth_result.raised /\ auth_result.value = 0)

C19_Witness ==
    /\ AuthDone
    /\ auth_data = <<>>
    /\ auth_w1 > 0
    /\ auth_result.value = 0

====
